---- MODULE Spec2Model ----
(***************************************************************************)
(* Watch monitor: the polling loop of main.rs, the shape shared by the     *)
(* site adapters (scrapers/*.rs), the seen-store (storage/sqlite.rs), the  *)
(* notification channel (discord/mod.rs) and the retrying fetch            *)
(* (utils/http.rs).                                                        *)
(*                                                                         *)
(* Strings are sequences of one-character strings, e.g. <<"r","x">>.       *)
(* The character "?" stands for the sentinel U+2753 (EMOJI_QUESTION).      *)
(***************************************************************************)
EXTENDS Integers, Sequences, FiniteSets, TLC

----------------------------------------------------------------------------
(* Bounds *)

\* number of polling cycles explored
MaxCycles == 2
\* longest candidate list one listing page yields
MaxCands == 2
\* largest max_retries handed to fetch_with_retry
MaxRetries == 3
\* most failures (of a fetch, a body read, a store call, a notification)
\* injected into one cycle
MaxFaults == 2

----------------------------------------------------------------------------
(* Strings *)

EMOJI_QUESTION == <<"?">>

NoneVal == "None"

\* Option<T>: None and Some(x)
Nothing == <<>>
Some(x) == <<x>>

\* str::to_lowercase on the characters used here
LowerChar(c) ==
    IF c = "R" THEN "r" ELSE IF c = "X" THEN "x"
    ELSE IF c = "B" THEN "b" ELSE IF c = "P" THEN "p" ELSE IF c = "G" THEN "g"
    ELSE c

RECURSIVE to_lowercase(_)
to_lowercase(s) ==
    IF s = <<>> THEN <<>> ELSE <<LowerChar(Head(s))>> \o to_lowercase(Tail(s))

RECURSIVE TrimStart(_)
TrimStart(s) ==
    IF s = <<>> THEN <<>>
    ELSE IF Head(s) = " " THEN TrimStart(Tail(s)) ELSE s

RECURSIVE TrimEnd(_)
TrimEnd(s) ==
    IF s = <<>> THEN <<>>
    ELSE IF s[Len(s)] = " " THEN TrimEnd(SubSeq(s, 1, Len(s) - 1)) ELSE s

\* str::trim
trim(s) == TrimEnd(TrimStart(s))

\* str::replace(' ', "")
RECURSIVE RemoveSpaces(_)
RemoveSpaces(s) ==
    IF s = <<>> THEN <<>>
    ELSE IF Head(s) = " " THEN RemoveSpaces(Tail(s))
    ELSE <<Head(s)>> \o RemoveSpaces(Tail(s))

\* .filter(|s| !s.is_empty())
RECURSIVE FilterNonEmpty(_)
FilterNonEmpty(parts) ==
    IF parts = <<>> THEN <<>>
    ELSE IF Head(parts) = <<>> THEN FilterNonEmpty(Tail(parts))
    ELSE <<Head(parts)>> \o FilterNonEmpty(Tail(parts))

\* .join("|")
RECURSIVE JoinBar(_)
JoinBar(parts) ==
    IF parts = <<>> THEN <<>>
    ELSE IF Len(parts) = 1 THEN parts[1]
    ELSE parts[1] \o <<"|">> \o JoinBar(Tail(parts))

\* the parts counted instead of the separators
CountBars_parts(s) == Len(SelectSeq(s, LAMBDA c : c = "|")) + 1

\* s.matches('|').count()
RECURSIVE CountBars(_)
CountBars(s) ==
    IF s = <<>> THEN 0
    ELSE (IF Head(s) = "|" THEN 1 ELSE 0) + CountBars(Tail(s))

\* U+00A0, written as one character
NBSP == "_"

\* char::is_whitespace on the characters used here
IsWhitespace(c) == c \in {" ", NBSP}

\* the entities decode_html_entities knows, of those used here
Entities ==
    { [name |-> <<"&", "a", "m", "p", ";">>, char |-> "&"],
      [name |-> <<"&", "n", "b", "s", "p", ";">>, char |-> NBSP],
      [name |-> <<"&", "#", "3", "2", ";">>, char |-> " "] }

\* q starts with pre
StartsWith(q, pre) == Len(q) >= Len(pre) /\ SubSeq(q, 1, Len(pre)) = pre

\* html_escape::decode_html_entities: one pass from the left; an entity is
\* replaced by its character, which is not read again; any other text stays
RECURSIVE decode_html_entities(_)
decode_html_entities(text) ==
    IF text = <<>> THEN <<>>
    ELSE IF \E e \in Entities : StartsWith(text, e.name)
    THEN LET e == CHOOSE x \in Entities : StartsWith(text, x.name)
         IN  <<e.char>> \o decode_html_entities(SubSeq(text, Len(e.name) + 1, Len(text)))
    ELSE <<Head(text)>> \o decode_html_entities(Tail(text))

\* str::split_whitespace: the maximal runs of non-whitespace, in order
RECURSIVE split_whitespace(_, _)
split_whitespace(text, word) ==
    IF text = <<>> THEN (IF word = <<>> THEN <<>> ELSE <<word>>)
    ELSE IF IsWhitespace(Head(text))
    THEN (IF word = <<>> THEN <<>> ELSE <<word>>) \o split_whitespace(Tail(text), <<>>)
    ELSE split_whitespace(Tail(text), Append(word, Head(text)))

\* .join(" ")
RECURSIVE JoinSpace(_)
JoinSpace(parts) ==
    IF parts = <<>> THEN <<>>
    ELSE IF Len(parts) = 1 THEN parts[1]
    ELSE parts[1] \o <<" ">> \o JoinSpace(Tail(parts))

\* decode_html_entities(text).split_whitespace().collect().join(" ").trim()
clean_text(text) ==
    trim(JoinSpace(split_whitespace(decode_html_entities(text), <<>>)))

----------------------------------------------------------------------------
(* Identity hasher, models/watch.rs *)

\* WatchListing::default
DefaultListing ==
    [ brand |-> EMOJI_QUESTION, model |-> EMOJI_QUESTION,
      reference |-> EMOJI_QUESTION, year |-> EMOJI_QUESTION,
      price_eur_display |-> EMOJI_QUESTION,
      price_eur_raw_for_hash |-> <<>>, price_usd_raw_for_hash |-> Nothing,
      condition_display |-> EMOJI_QUESTION, case_material |-> EMOJI_QUESTION,
      diameter |-> EMOJI_QUESTION, title |-> EMOJI_QUESTION,
      watch_url |-> <<>> ]

\* the string generate_composite_id hands to the digest
HashString(w) ==
    LET brand_norm == trim(to_lowercase(w.brand))
        model_norm == trim(to_lowercase(w.model))
        ref_norm   == RemoveSpaces(to_lowercase(w.reference))
        year_norm  == trim(to_lowercase(w.year))
        price_for_hash ==
            IF w.price_usd_raw_for_hash # Nothing
            THEN w.price_usd_raw_for_hash[1] ELSE w.price_eur_raw_for_hash
        case_material_norm ==
            IF w.case_material # EMOJI_QUESTION
            THEN trim(to_lowercase(w.case_material)) ELSE <<>>
        components == << brand_norm, model_norm, ref_norm, price_for_hash,
                         year_norm, case_material_norm >>
        id_string == JoinBar(FilterNonEmpty(components))
        essential == << brand_norm, model_norm, ref_norm, price_for_hash >>
        essential_count ==
            Cardinality({ i \in 1..4 :
                /\ essential[i] # <<>>
                /\ essential[i] # EMOJI_QUESTION
                /\ trim(essential[i]) # <<>> })
        fallback_parts ==
            << trim(to_lowercase(w.title)), price_for_hash >>
            \o (IF w.watch_url # <<>>
                THEN << trim(to_lowercase(w.watch_url)) >> ELSE <<>>)
    IN  IF id_string = <<>> \/ CountBars(id_string) < 2 \/ essential_count < 2
        THEN JoinBar(FilterNonEmpty(fallback_parts))
        ELSE id_string

\* the identifier taken over the URL as well as the key
generate_composite_id_with_url(w) == HashString(w) \o <<"|">> \o w.watch_url

\* the digest is taken to be injective on the strings that occur, so the
\* identifier is represented by the hashed string itself
generate_composite_id(w) == HashString(w)

----------------------------------------------------------------------------
(* Sites, models/site.rs.  Two of the six adapters are run; all six share  *)
(* the scrape / process_watch shape modelled below.                        *)

Sites == {"WorldOfTime", "Grimmeissen"}

\* Site::key
key(site) ==
    CASE site = "WorldOfTime" -> "worldoftime"
      [] site = "Grimmeissen" -> "grimmeissen"

----------------------------------------------------------------------------
(* Seen-store, storage/sqlite.rs.  A row is (site, watch_id, first_seen);  *)
(* (site, watch_id) is the primary key.                                    *)

\* has_seen with the site column left out of the WHERE clause
has_seen_any_site(rows, site, watch_id) ==
    \E r \in rows : r.watch_id = watch_id

\* SELECT 1 FROM seen_watches WHERE site = ?1 AND watch_id = ?2
has_seen(rows, site, watch_id) ==
    \E r \in rows : r.site = key(site) /\ r.watch_id = watch_id

\* the insert as INSERT OR REPLACE: an existing row is rewritten
mark_seen_replace(rows, site, watch_id, now) ==
    { r \in rows : ~(r.site = key(site) /\ r.watch_id = watch_id) }
    \cup {[site |-> key(site), watch_id |-> watch_id, first_seen |-> now]}

\* INSERT OR IGNORE INTO seen_watches (site, watch_id) VALUES (?1, ?2)
mark_seen(rows, site, watch_id, now) ==
    IF \E r \in rows : r.site = key(site) /\ r.watch_id = watch_id
    THEN rows
    ELSE rows \cup {[site |-> key(site), watch_id |-> watch_id, first_seen |-> now]}

----------------------------------------------------------------------------
(* Embed title, discord/embed.rs l.127-215.  String::len and the range    *)
(* indices of a str count UTF-8 bytes; slicing at an index that is not a   *)
(* character boundary panics.                                              *)

\* the truncation length of l.208-209, in bytes
TITLE_MAX == 250

\* A run of n letters "a" is written as one character, so that a text of
\* hundreds of bytes stays a short sequence.  A run is opaque to pattern
\* matching; byte counting and slicing look inside it.

\* the longest run written
RunMax == 250

RunChar(n) == IF n = 1 THEN "a" ELSE "a*" \o ToString(n)

RunChars == { RunChar(n) : n \in 2..RunMax }

IsRun(c) == c \in RunChars

RunLenOf == [c \in RunChars |-> CHOOSE n \in 2..RunMax : RunChar(n) = c]

RunLen(c) == RunLenOf[c]

\* len_utf8 of the characters used here
ByteWidth(c) ==
    IF c = "?" THEN 3               \* U+2753
    ELSE IF c \in {"ä", NBSP} THEN 2
    ELSE IF IsRun(c) THEN RunLen(c)
    ELSE 1

\* str::len
RECURSIVE ByteLen(_)
ByteLen(s) == IF s = <<>> THEN 0 ELSE ByteWidth(Head(s)) + ByteLen(Tail(s))

\* the number of whole characters of s within its first n bytes
RECURSIVE CharsIn(_, _)
CharsIn(s, n) ==
    IF s = <<>> \/ ByteWidth(Head(s)) > n THEN 0
    ELSE 1 + CharsIn(Tail(s), n - ByteWidth(Head(s)))

\* a call that unwinds, and one that returns x
Panic == <<>>
Returns(x) == <<x>>

\* n bytes into s are k whole characters and `over` bytes of the next one:
\* a character boundary if over = 0 or the next character is a run
SplitAt(s, k, over) ==
    IF over = 0
    THEN Returns([head |-> SubSeq(s, 1, k), tail |-> SubSeq(s, k + 1, Len(s))])
    ELSE IF k < Len(s) /\ IsRun(s[k + 1])
    THEN Returns([head |-> SubSeq(s, 1, k) \o <<RunChar(over)>>,
                  tail |-> <<RunChar(RunLen(s[k + 1]) - over)>> \o SubSeq(s, k + 2, Len(s))])
    ELSE Panic

\* s.split_at(n), which panics unless s.is_char_boundary(n)
split_at(s, n) == SplitAt(s, CharsIn(s, n), n - ByteLen(SubSeq(s, 1, CharsIn(s, n))))

\* &s[n..]
SliceFrom(s, n) == IF split_at(s, n) = Panic THEN Panic ELSE Returns(split_at(s, n)[1].tail)

\* &s[..n]
SliceTo(s, n) == IF split_at(s, n) = Panic THEN Panic ELSE Returns(split_at(s, n)[1].head)

\* str::contains
Contains(s, pat) ==
    \E i \in 0..(Len(s) - Len(pat)) : SubSeq(s, i + 1, i + Len(pat)) = pat

\* str::replace(pat, to), pat non-empty: the matches from the left
RECURSIVE Replace(_, _, _)
Replace(s, pat, to) ==
    IF s = <<>> THEN <<>>
    ELSE IF StartsWith(s, pat) THEN to \o Replace(SubSeq(s, Len(pat) + 1, Len(s)), pat, to)
    ELSE <<Head(s)>> \o Replace(Tail(s), pat, to)

\* q ends with suf
EndsWith(q, suf) ==
    Len(q) >= Len(suf) /\ SubSeq(q, Len(q) - Len(suf) + 1, Len(q)) = suf

\* the alternatives of the regex of l.167
TitlePrefixes ==
    { <<"H", "e", "r", "r", "e", "n", "u", "h", "r">>,
      <<"D", "a", "m", "e", "n", "u", "h", "r">>,
      <<"U", "n", "i", "s", "e", "x", "u", "h", "r">> }

\* the alternatives of the regex of l.179
TitleDescriptors ==
    { <<"A", "u", "t", "o", "m", "a", "t", "i", "k">>, <<"Q", "u", "a", "r", "z">>,
      <<"C", "h", "r", "o", "n", "o">>, <<"G", "M", "T">>, <<"D", "a", "t", "e">>,
      <<"C", "e", "r", "t", "i", "f", "i", "e", "d", " ",
        "P", "r", "e", "-", "O", "w", "n", "e", "d">>,
      <<"S", "t", "a", "h", "l">>, <<"G", "o", "l", "d">>,
      <<"K", "e", "r", "a", "m", "i", "k">> }

\* Regex ^(Herrenuhr|Damenuhr|Unisexuhr)\s* replaced by "", then trim (l.167-171)
RemoveTitlePrefix(t) ==
    IF \E p \in TitlePrefixes : StartsWith(t, p)
    THEN LET p == CHOOSE x \in TitlePrefixes : StartsWith(t, x)
         IN  trim(SubSeq(t, Len(p) + 1, Len(t)))
    ELSE trim(t)

\* Regex \s*(Automatik|...|Keramik)$ replaced by "", then trim (l.179-183)
RemoveTitleDescriptor(t) ==
    IF \E d \in TitleDescriptors : EndsWith(t, d)
    THEN LET d == CHOOSE x \in TitleDescriptors : EndsWith(t, x)
         IN  trim(SubSeq(t, 1, Len(t) - Len(d)))
    ELSE trim(t)

\* str::trim_matches('\'')
RECURSIVE TrimQuotes(_)
TrimQuotes(s) ==
    IF s = <<>> THEN <<>>
    ELSE IF Head(s) = "'" THEN TrimQuotes(Tail(s))
    ELSE IF s[Len(s)] = "'" THEN TrimQuotes(SubSeq(s, 1, Len(s) - 1))
    ELSE s

\* l.133-154: brand and model joined by " ", the brand not repeated
TitleFromParts(brand, model) ==
    LET brand_part == IF brand # <<>> /\ brand # EMOJI_QUESTION THEN <<brand>> ELSE <<>>
        use_model == /\ model # <<>>
                     /\ model # EMOJI_QUESTION
                     /\ to_lowercase(model) # to_lowercase(brand)
        model_cleaned ==
            IF brand # <<>> /\ StartsWith(to_lowercase(model), to_lowercase(brand))
            THEN SliceFrom(model, ByteLen(brand))
            ELSE Returns(model)
    IN  IF ~use_model THEN Returns(JoinSpace(brand_part))
        ELSE IF model_cleaned = Panic THEN Panic
        ELSE IF trim(model_cleaned[1]) = <<>> THEN Returns(JoinSpace(brand_part))
        ELSE Returns(JoinSpace(brand_part \o <<trim(model_cleaned[1])>>))

\* l.156-200: the title taken from the listing's full title when the parts
\* give nothing but the brand
TitleFromFullTitle(embed_title, brand, reference, full_title) ==
    IF ~(embed_title = <<>> \/ to_lowercase(embed_title) = to_lowercase(brand))
    THEN Returns(embed_title)
    ELSE IF full_title = <<>>
    THEN Returns(IF brand # <<>> THEN brand
                 ELSE <<"N", "/", "A", " ", "W", "a", "t", "c", "h">>)
    ELSE LET no_brand ==
                 IF brand # <<>> /\ StartsWith(to_lowercase(full_title), to_lowercase(brand))
                 THEN SliceFrom(full_title, ByteLen(brand))
                 ELSE Returns(full_title)
         IN  IF no_brand = Panic THEN Panic
             ELSE LET t1 == RemoveTitlePrefix(trim(no_brand[1]))
                      t2 == IF reference # <<>> THEN trim(Replace(t1, reference, <<>>)) ELSE t1
                      t3 == RemoveTitleDescriptor(t2)
                      temp_title == trim(TrimQuotes(Replace(t3, <<"'", "'">>, <<"'">>)))
                  IN  IF temp_title # <<>> /\ to_lowercase(temp_title) # to_lowercase(brand)
                      THEN Returns(IF brand # <<>> THEN brand \o <<" ">> \o temp_title
                                   ELSE temp_title)
                      ELSE Returns(full_title)

\* l.202-214: the reference appended, the title cut at TITLE_MAX bytes
TitleFinish(embed_title, reference) ==
    LET with_ref == IF reference # <<>> /\ ~Contains(embed_title, reference)
                    THEN embed_title \o <<" ", "|", " ">> \o reference
                    ELSE embed_title
    IN  IF ByteLen(with_ref) > TITLE_MAX
        THEN LET cut == SliceTo(with_ref, TITLE_MAX)
             IN  IF cut = Panic THEN Panic ELSE Returns(cut[1] \o <<".", ".", ".">>)
        ELSE IF trim(with_ref) = <<>> \/ with_ref = EMOJI_QUESTION
        THEN Returns(<<"U", "n", "k", "n", "o", "w", "n", " ", "W", "a", "t", "c", "h">>)
        ELSE Returns(with_ref)

build_embed_title(listing) ==
    LET brand == clean_text(listing.brand)
        model == clean_text(listing.model)
        reference == Replace(clean_text(listing.reference), EMOJI_QUESTION, <<>>)
        full_title == clean_text(listing.title)
        parts == TitleFromParts(brand, model)
        filled == IF parts = Panic THEN Panic
                  ELSE TitleFromFullTitle(parts[1], brand, reference, full_title)
    IN  IF filled = Panic THEN Panic ELSE TitleFinish(filled[1], reference)

\* create_embed (l.12-14) calls build_embed_title before anything else, and
\* send_notification calls create_embed before the request (discord/mod.rs l.17)
create_embed_panics(listing) == build_embed_title(listing) = Panic

----------------------------------------------------------------------------
(* What the pages hold *)

\* WatchData records extract_watch_data can produce from a listing page
WD1 == [ url |-> <<"u", "1">>, title |-> <<"R", " ", "x">>, brand |-> <<"R">>,
         model |-> <<"x">>, price_raw |-> <<"1">>, price_display |-> <<"1", "E">> ]
WD2 == [ url |-> <<>>, title |-> <<"x">>, brand |-> <<>>,
         model |-> <<>>, price_raw |-> <<"1">>, price_display |-> <<"1", "E">> ]

\* the elements a listing page can carry
PageItems == {WD1, WD2}

\* a reference cell of 243 letters "a" and an "ä", 245 bytes: with the
\* brand, the model and " | " in front of it, byte 250 of the embed title
\* falls inside its last character
LongReference == <<RunChar(243), "ä">>

\* the th/td values parse_detail_page finds on a detail page
DetailPages == { [reference |-> <<"7">>] }

\* detail pages with an unusually long cell
LongDetailPages == { [reference |-> LongReference] }

RECURSIVE SeqsUpTo(_, _)
SeqsUpTo(S, n) ==
    IF n = 0 THEN {<<>>}
    ELSE LET shorter == SeqsUpTo(S, n - 1)
         IN  shorter \cup { Append(q, x) : q \in { t \in shorter : Len(t) = n - 1 }, x \in S }

\* .filter of a sequence, keeping order
RECURSIVE SelectSeq2(_, _)
SelectSeq2(q, keep) ==
    IF q = <<>> THEN <<>>
    ELSE (IF Head(q) \in keep THEN <<Head(q)>> ELSE <<>>) \o SelectSeq2(Tail(q), keep)

\* the elements of a page link to different detail pages: the k-th element
\* with a link carries the url "u" k
RECURSIVE NumberUrls(_, _)
NumberUrls(page, k) ==
    IF page = <<>> THEN <<>>
    ELSE IF Head(page).url = <<>> THEN <<Head(page)>> \o NumberUrls(Tail(page), k)
    ELSE <<[Head(page) EXCEPT !.url = <<"u", ToString(k)>>]>>
         \o NumberUrls(Tail(page), k + 1)

\* listing pages: the matched elements, in document order
ListingPages == { NumberUrls(q, 1) : q \in SeqsUpTo(PageItems, MaxCands) }

\* extract_watch_data: worldoftime.rs pushes an element only when its url
\* is non-empty (l.147-149); grimmeissen.rs pushes every element (l.145)
extract_watch_data(site, page) ==
    IF site = "WorldOfTime"
    THEN SelectSeq2(page, { page[i] : i \in { j \in DOMAIN page : page[j].url # <<>> } })
    ELSE page

\* the WatchListing process_watch builds before the detail fetch
NewWatch(data) ==
    [ DefaultListing EXCEPT
        !.watch_url = data.url, !.title = data.title, !.brand = data.brand,
        !.model = data.model, !.price_eur_raw_for_hash = data.price_raw,
        !.price_eur_display = data.price_display ]

\* parse_detail_page: the table's reference cell overwrites watch.reference
parse_detail_page(page, watch) == [ watch EXCEPT !.reference = page.reference ]

----------------------------------------------------------------------------
(* Components run on their own *)

VARIABLES
    storeCall, \* the store on its own: its clock, the pairs marked, the last call
    conn, \* the Mutex around the Connection: the future holding its guard
    sched, \* join_all: the future being polled and where each future stands
    idCall, \* generate_composite_id applied to two listings
    cleanCall, \* clean_text applied to a text
    rateClient, \* ExchangeRateClient: the clock, its cache, the last call
    tw, \* TropicalWatchScraper::scrape: its position and what it did
    pw, \* an adapter's scrape loop on its own: its clock and the detail fetches it made
    parseCall  \* a parser applied to a text

\* the variables of the components that are also run on their own
compVars == << storeCall, conn, sched, idCall, cleanCall, rateClient, tw, pw, parseCall >>

\* the components run on their own are at rest
CompIdle ==
    /\ storeCall = NoneVal
    /\ conn = NoneVal
    /\ sched = NoneVal
    /\ idCall = NoneVal
    /\ cleanCall = NoneVal
    /\ rateClient = NoneVal
    /\ tw = NoneVal
    /\ pw = NoneVal
    /\ parseCall = NoneVal

\* the component variables SpecStore leaves alone
restOfStore == << conn, sched, idCall, cleanCall, rateClient, tw, pw, parseCall >>

RestOfStoreIdle ==
    /\ conn = NoneVal
    /\ sched = NoneVal
    /\ idCall = NoneVal
    /\ cleanCall = NoneVal
    /\ rateClient = NoneVal
    /\ tw = NoneVal
    /\ pw = NoneVal
    /\ parseCall = NoneVal

\* the component variables SpecLock leaves alone
restOfLock == << storeCall, idCall, cleanCall, rateClient, tw, pw, parseCall >>

RestOfLockIdle ==
    /\ storeCall = NoneVal
    /\ idCall = NoneVal
    /\ cleanCall = NoneVal
    /\ rateClient = NoneVal
    /\ tw = NoneVal
    /\ pw = NoneVal
    /\ parseCall = NoneVal

\* the component variables SpecId leaves alone
restOfId == << storeCall, conn, sched, cleanCall, rateClient, tw, pw, parseCall >>

RestOfIdIdle ==
    /\ storeCall = NoneVal
    /\ conn = NoneVal
    /\ sched = NoneVal
    /\ cleanCall = NoneVal
    /\ rateClient = NoneVal
    /\ tw = NoneVal
    /\ pw = NoneVal
    /\ parseCall = NoneVal

\* the component variables SpecClean leaves alone
restOfClean == << storeCall, conn, sched, idCall, rateClient, tw, pw, parseCall >>

RestOfCleanIdle ==
    /\ storeCall = NoneVal
    /\ conn = NoneVal
    /\ sched = NoneVal
    /\ idCall = NoneVal
    /\ rateClient = NoneVal
    /\ tw = NoneVal
    /\ pw = NoneVal
    /\ parseCall = NoneVal

\* the component variables SpecRate leaves alone
restOfRate == << storeCall, conn, sched, idCall, cleanCall, pw, parseCall >>

RestOfRateIdle ==
    /\ storeCall = NoneVal
    /\ conn = NoneVal
    /\ sched = NoneVal
    /\ idCall = NoneVal
    /\ cleanCall = NoneVal
    /\ pw = NoneVal
    /\ parseCall = NoneVal

\* the component variables SpecDelay leaves alone
restOfDelay == << storeCall, conn, sched, idCall, cleanCall, rateClient, tw, parseCall >>

RestOfDelayIdle ==
    /\ storeCall = NoneVal
    /\ conn = NoneVal
    /\ sched = NoneVal
    /\ idCall = NoneVal
    /\ cleanCall = NoneVal
    /\ rateClient = NoneVal
    /\ tw = NoneVal
    /\ parseCall = NoneVal

\* the component variables SpecParse leaves alone
restOfParse == << storeCall, conn, sched, idCall, cleanCall, rateClient, tw, pw >>

RestOfParseIdle ==
    /\ storeCall = NoneVal
    /\ conn = NoneVal
    /\ sched = NoneVal
    /\ idCall = NoneVal
    /\ cleanCall = NoneVal
    /\ rateClient = NoneVal
    /\ tw = NoneVal
    /\ pw = NoneVal

----------------------------------------------------------------------------
(* State *)

VARIABLES
    mainPc,   \* main loop: "tick" (awaiting interval.tick), "join" (awaiting
              \* join_all) or "panicked" (main has unwound)
    cycle,    \* number of cycles started
    task,     \* per site: the position and locals of the site's future
    hist,     \* per site: what the site's future did in the current cycle
    store,    \* rows of seen_watches
    fetch     \* one call of fetch_with_retry

vars == << mainPc, cycle, task, hist, store, fetch, compVars >>

\* locals of a site's future; the two `for` loops consume their vectors, so
\* watch_data and listings hold what is still to be iterated
IdleTask ==
    [ pc |-> "idle", watch_data |-> <<>>, watch |-> NoneVal,
      listings |-> <<>>, listing |-> NoneVal, new_items |-> 0, result |-> "none" ]

EmptyHist ==
    [ scrape |-> "none",  \* "none", "ok" or "err": what scraper.scrape returned
      cands |-> 0,        \* number of extracted WatchData that carry a url
      extracted |-> <<>>, \* their urls, in the order extract_watch_data gave
      started |-> <<>>,   \* per process_watch call: the url it was called with
      no_url |-> 0,       \* number of matched page elements without a url
      detail |-> <<>>,    \* per process_watch call that returned: what it did
      returned |-> 0,     \* number of listings scrape returned
      returned_urls |-> <<>>, \* the urls of the listings scrape returned, in order
      examined |-> <<>>,  \* per has_seen that returned Ok: the listing's position
                          \* in scrape's result, its url, its id, the answer, and
                          \* whether the store held a row for it at that moment
      notifs |-> <<>>,    \* per send_notification call that returned: id
      failed |-> 0,       \* number of send_notification calls that returned Err
      rows |-> <<>>,      \* per row mark_seen inserted: id
      store_err |-> 0 ]   \* position of the listing a store call failed on, 0 if none

\* fetch_with_retry: its arguments, its locals, and `trace`, what it did:
\* [e |-> "get"], [e |-> "resp", kind |-> ...], [e |-> "sleep", secs |-> ...]
IdleFetch ==
    [ pc |-> "idle", url |-> <<>>, max_retries |-> 0, attempts |-> 0,
      last_error |-> NoneVal, trace |-> <<>>, returned |-> NoneVal ]

Init ==
    /\ mainPc = "tick"
    /\ cycle = 0
    /\ task = [s \in Sites |-> IdleTask]
    /\ hist = [s \in Sites |-> EmptyHist]
    /\ store = {}
    /\ fetch = IdleFetch
    /\ CompIdle

\* number of entries of q equal to x
RECURSIVE Count(_, _)
Count(q, x) ==
    IF q = <<>> THEN 0 ELSE (IF Head(q) = x THEN 1 ELSE 0) + Count(Tail(q), x)

\* failures and long detail pages the environment has produced in the
\* current cycle
FaultsOf(h) ==
    (IF h.scrape = "err" THEN 1 ELSE 0) + Count(h.detail, "fetch_err")
    + Count(h.detail, "body_err") + Count(h.detail, "enriched_long")
    + h.failed + (IF h.store_err > 0 THEN 1 ELSE 0)

RECURSIVE SumFaults(_)
SumFaults(S) ==
    IF S = {} THEN 0
    ELSE LET s == CHOOSE x \in S : TRUE IN FaultsOf(hist[s]) + SumFaults(S \ {s})

\* what a fallible call can return after n more failures in the same
\* action: Ok, or Err while the fault bound allows; a long detail page is
\* served under the same bound
ResultsAfter(n) == IF SumFaults(Sites) + n < MaxFaults THEN {"ok", "err"} ELSE {"ok"}

Results == ResultsAfter(0)

----------------------------------------------------------------------------
(* Orchestrator, main.rs l.63-132.  A site's future runs without           *)
(* interruption between two awaits, so an action is one such stretch.      *)

\* interval.tick().await returns; one future per scraper is built and
\* join_all polls each up to its first await, the listing-page fetch
Tick ==
    /\ mainPc = "tick"
    /\ cycle < MaxCycles
    /\ cycle' = cycle + 1
    /\ mainPc' = "join"
    /\ task' = [s \in Sites |-> [IdleTask EXCEPT !.pc = "fetch_list"]]
    /\ hist' = [s \in Sites |-> EmptyHist]
    /\ UNCHANGED << store, fetch, compVars >>

\* the site's future returns r; its locals are dropped
TaskReturn(r) == [IdleTask EXCEPT !.pc = "done", !.result = r]

\* ScrapeErr with the scrape error handed on by the future
ScrapeErr_propagate(s) ==
    /\ task' = [task EXCEPT ![s] = TaskReturn("err")]
    /\ hist' = [hist EXCEPT ![s].scrape = "err"]

\* scraper.scrape returned Err: main.rs l.113-116 logs it and the future is Ok(())
ScrapeErr(s) ==
    /\ task' = [task EXCEPT ![s] = TaskReturn("ok")]
    /\ hist' = [hist EXCEPT ![s].scrape = "err"]

\* the listing-page fetch_with_retry returns (scrape, `?` on its Err)
ScrapeFetchList(s) ==
    /\ mainPc = "join"
    /\ task[s].pc = "fetch_list"
    /\ \E r \in Results :
         IF r = "err" THEN ScrapeErr(s)
         ELSE /\ task' = [task EXCEPT ![s].pc = "list_body"]
              /\ UNCHANGED hist
    /\ UNCHANGED << mainPc, cycle, store, fetch, compVars >>

\* the loop without the url test
SkipNoUrl_none(watch_data) == watch_data

\* `if !data.url.is_empty()` around process_watch (grimmeissen.rs l.56):
\* the data the loop passes over
RECURSIVE SkipNoUrl(_)
SkipNoUrl(watch_data) ==
    IF watch_data = <<>> THEN <<>>
    ELSE IF Head(watch_data).url = <<>> THEN SkipNoUrl(Tail(watch_data))
    ELSE watch_data

\* `for data in watch_data` from its head, with `listings` pushed so far: the
\* next data with a url goes to process_watch, which builds the watch and
\* sleeps; at the end scrape returns Ok(listings) and main.rs l.78-82 enters
\* `for listing in listings`
ScrapeLoop(s, watch_data, listings, h) ==
    LET rest == SkipNoUrl(watch_data)
    IN  IF rest = <<>>
        THEN /\ task' = [task EXCEPT ![s].pc = "list_loop", ![s].watch_data = <<>>,
                                     ![s].watch = NoneVal, ![s].listings = listings,
                                     ![s].new_items = 0]
             /\ hist' = [hist EXCEPT ![s] =
                           [h EXCEPT !.scrape = "ok",
                                     !.returned = Len(listings),
                                     !.returned_urls =
                                         [i \in DOMAIN listings |-> listings[i].watch_url]]]
        ELSE /\ task' = [task EXCEPT ![s].pc = "detail_sleep", ![s].watch_data = Tail(rest),
                                     ![s].watch = NewWatch(Head(rest)),
                                     ![s].listings = listings]
             /\ hist' = [hist EXCEPT ![s] =
                           [h EXCEPT !.started = Append(@, Head(rest).url)]]

\* response.text() returns (`?` on its Err), then extract_watch_data and
\* the scrape loop
ScrapeListBody(s) ==
    /\ mainPc = "join"
    /\ task[s].pc = "list_body"
    /\ \E r \in Results :
         IF r = "err" THEN ScrapeErr(s)
         ELSE \E page \in ListingPages :
                LET watch_data == extract_watch_data(s, page)
                    with_url == Cardinality({i \in DOMAIN watch_data : watch_data[i].url # <<>>})
                    urls == [i \in DOMAIN watch_data |-> watch_data[i].url]
                IN  ScrapeLoop(s, watch_data, <<>>,
                               [hist[s] EXCEPT !.cands = with_url,
                                               !.extracted = SelectSeq(urls, LAMBDA u : u # <<>>),
                                               !.no_url = Len(page) - with_url])
    /\ UNCHANGED << mainPc, cycle, store, fetch, compVars >>

\* the politeness sleep of process_watch ends, the detail fetch starts
DetailSleep(s) ==
    /\ mainPc = "join"
    /\ task[s].pc = "detail_sleep"
    /\ task' = [task EXCEPT ![s].pc = "detail_fetch"]
    /\ UNCHANGED << mainPc, cycle, hist, store, fetch, compVars >>

\* push with the listing put in front
push_front(listings, pushed) == pushed \o listings

\* listings.push(listing), for the one listing or none in `pushed`
push(listings, pushed) == listings \o pushed

\* process_watch returned: Ok(listing) is pushed, Err is logged
\* (worldoftime.rs l.57-60); then the scrape loop goes on
ProcessWatchReturn(s, outcome, pushed) ==
    ScrapeLoop(s, task[s].watch_data, push(task[s].listings, pushed),
               [hist[s] EXCEPT !.detail = Append(@, outcome)])

\* DetailFetch with `?` on the detail fetch, handed on by scrape
DetailFetch_abort(s) ==
    /\ mainPc = "join"
    /\ task[s].pc = "detail_fetch"
    /\ \E r \in Results :
         IF r = "err"
         THEN /\ task' = [task EXCEPT ![s] = TaskReturn("ok")]
              /\ hist' = [hist EXCEPT ![s].scrape = "err",
                                      ![s].detail = Append(@, "fetch_err")]
         ELSE /\ task' = [task EXCEPT ![s].pc = "detail_body"]
              /\ UNCHANGED hist
    /\ UNCHANGED << mainPc, cycle, store, fetch, compVars >>

\* the detail fetch_with_retry returns: on Err the error is logged and the
\* watch is returned as built from the listing page (worldoftime.rs l.181-192)
DetailFetch(s) ==
    /\ mainPc = "join"
    /\ task[s].pc = "detail_fetch"
    /\ \E r \in Results :
         IF r = "err"
         THEN ProcessWatchReturn(s, "fetch_err", <<task[s].watch>>)
         ELSE /\ task' = [task EXCEPT ![s].pc = "detail_body"]
              /\ UNCHANGED hist
    /\ UNCHANGED << mainPc, cycle, store, fetch, compVars >>

\* detail_response.text() returns: `?` on its Err makes process_watch
\* return Err (worldoftime.rs l.183); otherwise parse_detail_page
DetailBody(s) ==
    /\ mainPc = "join"
    /\ task[s].pc = "detail_body"
    /\ \E r \in Results :
         IF r = "err"
         THEN ProcessWatchReturn(s, "body_err", <<>>)
         ELSE \/ \E page \in DetailPages :
                   ProcessWatchReturn(s, "enriched",
                                      <<parse_detail_page(page, task[s].watch)>>)
              \/ /\ "err" \in Results
                 /\ \E page \in LongDetailPages :
                      ProcessWatchReturn(s, "enriched_long",
                                         <<parse_detail_page(page, task[s].watch)>>)
    /\ UNCHANGED << mainPc, cycle, store, fetch, compVars >>

\* every WatchListing a scrape can return: process_watch's watch for an
\* element of a listing page, as built or with a detail page parsed into it
ScrapedListings ==
    LET datas == { [d EXCEPT !.url = u] :
                     d \in PageItems,
                     u \in {<<>>} \cup { <<"u", ToString(k)>> : k \in 1..MaxCands } }
        built == { NewWatch(d) : d \in datas }
    IN  built \cup { parse_detail_page(page, w) :
                       page \in DetailPages \cup LongDetailPages, w \in built }

\* listing.generate_composite_id() of each of them (main.rs l.83)
WatchIdOf == [ w \in ScrapedListings |-> generate_composite_id(w) ]

\* whether create_embed panics on each of them
EmbedPanics == [ w \in ScrapedListings |-> create_embed_panics(w) ]

\* the identifier of the listing the site's loop is at
CurrentId(s) == WatchIdOf[task[s].listing]

\* a store call returned Err on the listing at position pos: `?` ends the
\* site's future with that error (main.rs l.86, l.97)
StoreErr(s, pos) ==
    /\ task' = [task EXCEPT ![s] = TaskReturn("err")]
    /\ hist' = [hist EXCEPT ![s].store_err = pos]

\* head of `for listing in listings` and the has_seen call (main.rs l.82-86);
\* at the end the future returns Ok(())
ListLoop(s) ==
    /\ mainPc = "join"
    /\ task[s].pc = "list_loop"
    /\ IF task[s].listings = <<>>
       THEN /\ task' = [task EXCEPT ![s] = TaskReturn("ok")]
            /\ UNCHANGED hist
       ELSE \E r \in Results :
              IF r = "err" THEN StoreErr(s, hist[s].returned - Len(task[s].listings) + 1)
              ELSE LET id == WatchIdOf[Head(task[s].listings)]
                       seen == has_seen(store, s, id)
                   IN  /\ task' = IF seen
                                  THEN [task EXCEPT ![s].listings = Tail(@)]
                                  ELSE [task EXCEPT ![s].listings = Tail(@),
                                                    ![s].listing = Head(task[s].listings),
                                                    ![s].pc = "notify"]
                       /\ hist' = [hist EXCEPT ![s].examined =
                                     Append(@, [pos |-> hist[s].returned - Len(task[s].listings) + 1,
                                                url |-> Head(task[s].listings).watch_url,
                                                id |-> id, seen |-> seen,
                                                present |-> \E row \in store :
                                                    row.site = key(s) /\ row.watch_id = id])]
    /\ UNCHANGED << mainPc, cycle, store, fetch, compVars >>

\* AfterNotify with `?` on send_notification: a failed delivery ends the
\* future before mark_seen
AfterNotify_propagate(s, ok) ==
    IF ~ok
    THEN /\ task' = [task EXCEPT ![s] = TaskReturn("err")]
         /\ hist' = [hist EXCEPT ![s].notifs = Append(@, CurrentId(s)),
                                 ![s].failed = @ + 1]
         /\ UNCHANGED store
    ELSE /\ store' = mark_seen(store, s, CurrentId(s), 0)
         /\ task' = [task EXCEPT ![s].pc = "pace", ![s].new_items = @ + 1]
         /\ hist' = [hist EXCEPT
                       ![s].notifs = Append(@, CurrentId(s)),
                       ![s].rows = IF store' # store THEN Append(@, CurrentId(s)) ELSE @]

\* what main does once send_notification has returned `ok`: an Err is only
\* logged (main.rs l.88-94); then storage.mark_seen(...).await?,
\* new_items += 1 and the 1 s sleep (l.97-101)
AfterNotify(s, ok) ==
    \E r \in ResultsAfter(IF ok THEN 0 ELSE 1) :
      IF r = "err"
      THEN /\ task' = [task EXCEPT ![s] = TaskReturn("err")]
           /\ hist' = [hist EXCEPT ![s].store_err = hist[s].returned - Len(task[s].listings),
                                   ![s].notifs = Append(@, CurrentId(s)),
                                   ![s].failed = IF ok THEN @ ELSE @ + 1]
           /\ UNCHANGED store
      ELSE /\ store' = mark_seen(store, s, CurrentId(s), 0)
           /\ task' = [task EXCEPT ![s].pc = "pace", ![s].new_items = @ + 1]
           /\ hist' = [hist EXCEPT
                         ![s].notifs = Append(@, CurrentId(s)),
                         ![s].failed = IF ok THEN @ ELSE @ + 1,
                         ![s].rows = IF store' # store THEN Append(@, CurrentId(s)) ELSE @]

\* discord::send_notification (discord/mod.rs l.12-40) builds the embed and
\* then returns Ok or Err.  The site's future is polled by join_all inside
\* main's own future, so a panic in create_embed unwinds through join_all and
\* main: the process ends and nothing runs any more.
Notify(s) ==
    /\ mainPc = "join"
    /\ task[s].pc = "notify"
    /\ IF EmbedPanics[task[s].listing]
       THEN /\ mainPc' = "panicked"
            /\ UNCHANGED << task, hist, store >>
       ELSE /\ \E r \in Results : AfterNotify(s, r = "ok")
            /\ UNCHANGED mainPc
    /\ UNCHANGED << cycle, fetch, compVars >>

\* the 1 s sleep after a new listing ends (main.rs l.101); next listing
Pace(s) ==
    /\ mainPc = "join"
    /\ task[s].pc = "pace"
    /\ task' = [task EXCEPT ![s].pc = "list_loop", ![s].listing = NoneVal]
    /\ UNCHANGED << mainPc, cycle, hist, store, fetch, compVars >>

\* Join returning as soon as one future has returned
Join_any ==
    /\ mainPc = "join"
    /\ \E s \in Sites : task[s].pc = "done"
    /\ mainPc' = "tick"
    /\ UNCHANGED << cycle, task, hist, store, fetch, compVars >>

\* join_all returns once every site's future has returned; Err results are
\* logged (main.rs l.122-131) and the loop goes back to interval.tick
Join ==
    /\ mainPc = "join"
    /\ \A s \in Sites : task[s].pc = "done"
    /\ mainPc' = "tick"
    /\ UNCHANGED << cycle, task, hist, store, fetch, compVars >>

Next ==
    \/ Tick
    \/ Join
    \/ \E s \in Sites :
         \/ ScrapeFetchList(s)
         \/ ScrapeListBody(s)
         \/ DetailSleep(s)
         \/ DetailFetch(s)
         \/ DetailBody(s)
         \/ ListLoop(s)
         \/ Notify(s)
         \/ Pace(s)

Spec == Init /\ [][Next]_vars

----------------------------------------------------------------------------
(* fetch_with_retry, utils/http.rs l.17-48 *)

\* what one GET can come to: a success status, a non-success status, or a
\* transport error
Responses == {"success", "http_404", "http_500", "transport"}

Urls == { <<"u", "1">>, <<"u", "2">> }

RECURSIVE Pow2(_)
Pow2(n) == IF n = 0 THEN 1 ELSE 2 * Pow2(n - 1)

\* the loop condition off by one
LoopCond_inclusive(attempts, max_retries) == attempts <= max_retries

\* `while attempts < max_retries`
LoopCond(attempts, max_retries) == attempts < max_retries

\* `if attempts < max_retries` before the sleep (l.39)
SleepCond(attempts, max_retries) == attempts < max_retries

\* the delay taken from the attempt count before its increment
BackoffSecs_early(attempts) == Pow2(attempts - 1)

\* Duration::from_secs(2u64.pow(attempts)); 2^attempts fits a u64 for
\* attempts < 64, far above the retry counts explored
BackoffSecs(attempts) == Pow2(attempts)

\* the first error kept instead of the latest
RecordError_first(last_error, kind) == IF last_error = NoneVal THEN kind ELSE last_error

\* last_error = Some(...) in both failure arms (l.29, l.34)
RecordError(last_error, kind) == kind

\* Err(last_error.unwrap_or_else(|| anyhow!("Max retries exceeded")))
\*     .context(format!("Failed to fetch {} after {} attempts", url, max_retries))
FinalError(last_error, url, max_retries) ==
    [ tag |-> "err",
      error |-> IF last_error = NoneVal THEN "max_retries_exceeded" ELSE last_error,
      context |-> [url |-> url, attempts |-> max_retries] ]

InitFetch ==
    /\ mainPc = "tick"
    /\ cycle = 0
    /\ task = [s \in Sites |-> IdleTask]
    /\ hist = [s \in Sites |-> EmptyHist]
    /\ store = {}
    /\ CompIdle
    /\ \E u \in Urls, m \in 0..MaxRetries :
         fetch = [IdleFetch EXCEPT !.pc = "loop", !.url = u, !.max_retries = m]

\* loop condition holds: client.get(url).send() is issued
FetchSend ==
    /\ fetch.pc = "loop"
    /\ LoopCond(fetch.attempts, fetch.max_retries)
    /\ fetch' = [fetch EXCEPT !.pc = "sending", !.trace = Append(@, [e |-> "get"])]
    /\ UNCHANGED << mainPc, cycle, task, hist, store, compVars >>

\* the GET completes: success returns at once; a failure is recorded,
\* attempts += 1 and, if attempts are left, the backoff sleep starts
FetchResponse ==
    /\ fetch.pc = "sending"
    /\ \E kind \in Responses :
         LET tr == Append(fetch.trace, [e |-> "resp", kind |-> kind])
             attempts == fetch.attempts + 1
         IN  IF kind = "success"
             THEN fetch' = [fetch EXCEPT !.pc = "returned", !.trace = tr,
                                         !.returned = [tag |-> "ok"]]
             ELSE IF SleepCond(attempts, fetch.max_retries)
             THEN fetch' = [fetch EXCEPT
                              !.pc = "sleeping", !.attempts = attempts,
                              !.last_error = RecordError(@, kind),
                              !.trace = Append(tr, [e |-> "sleep", secs |-> BackoffSecs(attempts)])]
             ELSE fetch' = [fetch EXCEPT
                              !.pc = "loop", !.attempts = attempts,
                              !.last_error = RecordError(@, kind), !.trace = tr]
    /\ UNCHANGED << mainPc, cycle, task, hist, store, compVars >>

\* the backoff sleep ends
FetchWake ==
    /\ fetch.pc = "sleeping"
    /\ fetch' = [fetch EXCEPT !.pc = "loop"]
    /\ UNCHANGED << mainPc, cycle, task, hist, store, compVars >>

\* loop condition fails: the wrapped error is returned
FetchExhausted ==
    /\ fetch.pc = "loop"
    /\ ~LoopCond(fetch.attempts, fetch.max_retries)
    /\ fetch' = [fetch EXCEPT !.pc = "returned",
                   !.returned = FinalError(fetch.last_error, fetch.url, fetch.max_retries)]
    /\ UNCHANGED << mainPc, cycle, task, hist, store, compVars >>

NextFetch == FetchSend \/ FetchResponse \/ FetchWake \/ FetchExhausted

SpecFetch == InitFetch /\ [][NextFetch]_vars

----------------------------------------------------------------------------
(* Properties of the orchestrator *)

\* the ids of the examined listings the store held no row for, in order
RECURSIVE UnseenIds(_)
UnseenIds(examined) ==
    IF examined = <<>> THEN <<>>
    ELSE (IF Head(examined).present THEN <<>> ELSE <<Head(examined).id>>)
         \o UnseenIds(Tail(examined))

\* the site's future has returned after a scrape that returned Ok and
\* without a store call failing
CleanDone(s) ==
    /\ task[s].pc = "done"
    /\ hist[s].scrape = "ok"
    /\ hist[s].store_err = 0

\* C1: once a site's future has returned, its scrape having returned a list
\* and every store call having succeeded, every listing of the list was
\* examined, the notifications are exactly those of the listings whose
\* (site key, id) had no row when examined, exactly one row was inserted per
\* such id and the store holds exactly one row for it; seen listings caused
\* neither.
C1_NotifyExactlyUnseen ==
    \A s \in Sites :
      CleanDone(s) =>
        /\ Len(hist[s].examined) = hist[s].returned
        /\ hist[s].notifs = UnseenIds(hist[s].examined)
        /\ hist[s].rows = hist[s].notifs
        /\ \A i, j \in DOMAIN hist[s].rows :
             i # j => hist[s].rows[i] # hist[s].rows[j]
        /\ \A i \in DOMAIN hist[s].rows :
             Cardinality({ r \in store : r.site = key(s)
                                         /\ r.watch_id = hist[s].rows[i] }) = 1

\* a site returned two listings, one already seen and one new: one notification
C1_Witness ==
    \E s \in Sites :
      /\ CleanDone(s)
      /\ Len(hist[s].examined) = 2
      /\ \E i, j \in DOMAIN hist[s].examined :
           hist[s].examined[i].present /\ ~hist[s].examined[j].present
      /\ Len(hist[s].notifs) = 1
      /\ Len(hist[s].rows) = 1

\* C2: when send_notification has failed in a site's cycle and no store call
\* has failed, every notified listing, the failed ones included, got its
\* mark_seen (a row each, present in the store), the site's future has not
\* returned an error, and once it has returned every listing was examined.
C2_MarkedDespiteNotifyFailure ==
    \A s \in Sites :
      (hist[s].failed > 0 /\ hist[s].store_err = 0) =>
        /\ Len(hist[s].rows) = Len(hist[s].notifs)
        /\ \A i \in DOMAIN hist[s].notifs :
             \E r \in store : r.site = key(s) /\ r.watch_id = hist[s].notifs[i]
        /\ task[s].result # "err"
        /\ task[s].pc = "done" => Len(hist[s].examined) = hist[s].returned

\* the notification of the first listing failed, its row was written and
\* the second listing was then examined
C2_Witness ==
    \E s \in Sites :
      /\ hist[s].failed = 1
      /\ Len(hist[s].notifs) = 1
      /\ hist[s].rows = hist[s].notifs
      /\ Len(hist[s].examined) = 2
      /\ hist[s].examined[1].id = hist[s].notifs[1]
      /\ ~hist[s].examined[1].present

\* C3: a site whose scrape returned Err has sent no notification, written no
\* row and examined nothing, and its future has returned Ok; once join_all
\* has returned, every other site whose own scrape and store calls succeeded
\* has examined all its listings; and join_all can return whenever all
\* futures have returned, so the loop reaches the next tick.
C3_ScrapeErrorIsolated ==
    /\ \A s \in Sites :
         hist[s].scrape = "err" =>
           /\ hist[s].notifs = <<>> /\ hist[s].rows = <<>> /\ hist[s].examined = <<>>
           /\ task[s].pc = "done" /\ task[s].result = "ok"
           /\ mainPc = "tick" =>
                \A t \in Sites \ {s} :
                  (hist[t].scrape = "ok" /\ hist[t].store_err = 0) =>
                    /\ task[t].pc = "done" /\ task[t].result = "ok"
                    /\ Len(hist[t].examined) = hist[t].returned
                    /\ hist[t].notifs = UnseenIds(hist[t].examined)
    /\ (mainPc = "join" /\ \A s \in Sites : task[s].pc = "done") => ENABLED Join

\* the cycle is over, one site's scrape failed, another notified a listing
C3_Witness ==
    /\ mainPc = "tick"
    /\ cycle >= 1
    /\ \E s, t \in Sites :
         /\ hist[s].scrape = "err"
         /\ hist[t].scrape = "ok"
         /\ Len(hist[t].notifs) >= 1
         /\ Len(hist[t].examined) = hist[t].returned

\* C4 (as claimed): after a store call failed on the listing at one position
\* of a site's result, every listing at a later position has been looked up
\* by the time the site's future has returned.
C4_LaterListingsProcessed ==
    \A s \in Sites :
      (task[s].pc = "done" /\ hist[s].store_err > 0) =>
        \A p \in (hist[s].store_err + 1)..hist[s].returned :
          \E i \in DOMAIN hist[s].examined : hist[s].examined[i].pos = p

\* C8: a cycle starts only from a state in which every site's future of the
\* cycle before has returned (or none was ever started), it starts exactly
\* one future per site, and while the main loop waits at the tick no site
\* future is running.
C8_CyclesNeverOverlap ==
    [][ /\ cycle' # cycle =>
             /\ cycle' = cycle + 1
             /\ \A s \in Sites : task[s].pc \in {"idle", "done"}
             /\ \A s \in Sites : task'[s].pc = "fetch_list"
        /\ mainPc' = "tick" => \A s \in Sites : task'[s].pc \in {"idle", "done"}
      ]_vars

\* a second cycle is running after a first one was joined
C8_Witness ==
    /\ cycle >= 2
    /\ mainPc = "join"
    /\ \E s, t \in Sites : task[s].pc = "detail_fetch" /\ task[t].pc = "done"

\* C9: a detail fetch that failed after all retries never makes the scrape
\* fail: once the scrape has returned, every extracted candidate with a url
\* went through process_watch and every one of them whose body read did not
\* fail is in the result; once join_all has returned, every other site whose
\* own scrape and store calls succeeded has examined all its listings.
C9_DetailFetchFailureIsolated ==
    \A s \in Sites :
      Count(hist[s].detail, "fetch_err") > 0 =>
        /\ hist[s].scrape # "err"
        /\ hist[s].scrape = "ok" =>
             /\ Len(hist[s].detail) = hist[s].cands
             /\ hist[s].returned = hist[s].cands - Count(hist[s].detail, "body_err")
        /\ mainPc = "tick" =>
             \A t \in Sites \ {s} :
               (hist[t].scrape = "ok" /\ hist[t].store_err = 0) =>
                 Len(hist[t].examined) = hist[t].returned

\* the first candidate's detail fetch failed, the second was enriched, both
\* were returned
C9_Witness ==
    \E s \in Sites :
      /\ hist[s].scrape = "ok"
      /\ hist[s].detail = <<"fetch_err", "enriched">>
      /\ hist[s].returned = 2

\* C10 (as claimed): the result of a scrape holds a listing for every
\* extracted candidate with a url, whatever became of its detail page.
C10_NoCandidateDropped ==
    \A s \in Sites :
      hist[s].scrape = "ok" => hist[s].returned = hist[s].cands

----------------------------------------------------------------------------
(* Properties of fetch_with_retry *)

IsGet(ev) == ev.e = "get"
IsSleep(ev) == ev.e = "sleep"
IsFailure(ev) == ev.e = "resp" /\ ev.kind # "success"
IsSuccess(ev) == ev.e = "resp" /\ ev.kind = "success"

\* number of events among the first n of the trace that satisfy Test
NumGets(n) == Cardinality({ i \in 1..n : IsGet(fetch.trace[i]) })
NumFailures(n) == Cardinality({ i \in 1..n : IsFailure(fetch.trace[i]) })

\* C5: never more than max_retries GETs; a success ends the call at once
\* (nothing follows it in the trace and Ok is returned exactly then); an
\* error is returned only after exactly max_retries GETs, all failed.
C5_AtMostMaxAttempts ==
    LET tr == fetch.trace IN
    /\ NumGets(Len(tr)) <= fetch.max_retries
    /\ \A i \in DOMAIN tr : IsSuccess(tr[i]) =>
         i = Len(tr) /\ fetch.pc = "returned" /\ fetch.returned.tag = "ok"
    /\ (fetch.pc = "returned" /\ fetch.returned.tag = "ok") =>
         tr # <<>> /\ IsSuccess(tr[Len(tr)])
    /\ (fetch.pc = "returned" /\ fetch.returned.tag = "err") =>
         /\ NumGets(Len(tr)) = fetch.max_retries
         /\ NumFailures(Len(tr)) = fetch.max_retries

\* all of at least two attempts failed
C5_Witness ==
    /\ fetch.pc = "returned"
    /\ fetch.returned.tag = "err"
    /\ fetch.max_retries >= 2
    /\ NumGets(Len(fetch.trace)) = fetch.max_retries

\* C6: a sleep directly follows a failed response and, once the call has
\* gone on, is directly followed by a GET; the k-th failure with
\* k < max_retries is directly followed by a sleep of 2^k seconds; nothing
\* follows the max_retries-th failure or a success.
C6_BackoffBetweenAttempts ==
    LET tr == fetch.trace IN
    \A i \in DOMAIN tr :
      /\ IsSleep(tr[i]) =>
           /\ i > 1 /\ IsFailure(tr[i - 1])
           /\ i < Len(tr) => IsGet(tr[i + 1])
           /\ i = Len(tr) => fetch.pc \in {"sleeping", "loop"}
      /\ (IsFailure(tr[i]) /\ NumFailures(i) < fetch.max_retries) =>
           /\ i < Len(tr)
           /\ tr[i + 1] = [e |-> "sleep", secs |-> Pow2(NumFailures(i))]
      /\ (IsFailure(tr[i]) /\ NumFailures(i) >= fetch.max_retries) => i = Len(tr)
      /\ IsSuccess(tr[i]) => i = Len(tr)

\* two failures were each followed by their sleep, 2 s then 4 s, and a
\* third attempt was made
C6_Witness ==
    LET tr == fetch.trace IN
    /\ Len(tr) >= 7
    /\ tr[3] = [e |-> "sleep", secs |-> 2]
    /\ tr[6] = [e |-> "sleep", secs |-> 4]
    /\ IsGet(tr[7])

\* the kind of the last response in the trace
LastResponseKind == fetch.trace[Len(fetch.trace)].kind

\* C7: when an error is returned after at least one attempt, it is the
\* error of the last attempt, with the url and max_retries as context.
C7_LastErrorReturned ==
    (fetch.pc = "returned" /\ fetch.returned.tag = "err" /\ fetch.trace # <<>>) =>
      /\ IsFailure(fetch.trace[Len(fetch.trace)])
      /\ fetch.returned.error = LastResponseKind
      /\ fetch.returned.context = [url |-> fetch.url, attempts |-> fetch.max_retries]

\* a transport error first, a status error last: the status error is returned
C7_Witness ==
    /\ fetch.pc = "returned"
    /\ fetch.returned.tag = "err"
    /\ Len(fetch.trace) >= 5
    /\ fetch.trace[2].kind = "transport"
    /\ LastResponseKind = "http_500"
    /\ fetch.returned.error = "http_500"

----------------------------------------------------------------------------
(* The seen-store on its own, storage/sqlite.rs l.28-74: any sequence of   *)
(* has_seen and mark_seen calls while the database clock advances.         *)

MaxClock == 3

\* identifiers handed to the store
StoreIds == { <<"a">>, <<"b">> }

\* the conflict clause of the INSERT: OR IGNORE skips a row whose primary
\* key exists, the statement succeeds
mark_seen_status(rows, site, watch_id) == "ok"

InitStore ==
    /\ mainPc = "tick"
    /\ cycle = 0
    /\ task = [s \in Sites |-> IdleTask]
    /\ hist = [s \in Sites |-> EmptyHist]
    /\ fetch = IdleFetch
    /\ RestOfStoreIdle
    /\ store = {}
    /\ storeCall = [now |-> 1, marked |-> {}, last |-> [op |-> "none"]]

\* CURRENT_TIMESTAMP advances
ClockTick ==
    /\ storeCall.now < MaxClock
    /\ storeCall' = [storeCall EXCEPT !.now = @ + 1]
    /\ UNCHANGED << mainPc, cycle, task, hist, store, fetch, restOfStore >>

\* storage.mark_seen(site, watch_id); first_seen defaults to CURRENT_TIMESTAMP
MarkSeenCall ==
    /\ \E s \in Sites, id \in StoreIds :
         /\ store' = mark_seen(store, s, id, storeCall.now)
         /\ storeCall' = [storeCall EXCEPT
                            !.marked = @ \cup {<<key(s), id>>},
                            !.last = [op |-> "mark_seen", site |-> s, watch_id |-> id,
                                      result |-> mark_seen_status(store, s, id),
                                      before |-> store]]
    /\ UNCHANGED << mainPc, cycle, task, hist, fetch, restOfStore >>

\* storage.has_seen(site, watch_id)
HasSeenCall ==
    /\ \E s \in Sites, id \in StoreIds :
         storeCall' = [storeCall EXCEPT
                         !.last = [op |-> "has_seen", site |-> s, watch_id |-> id,
                                   result |-> has_seen(store, s, id),
                                   before |-> store]]
    /\ UNCHANGED << mainPc, cycle, task, hist, store, fetch, restOfStore >>

NextStore == ClockTick \/ MarkSeenCall \/ HasSeenCall

SpecStore == InitStore /\ [][NextStore]_vars

\* the rows of the pair (site key, watch_id)
RowsOf(rows, k, watch_id) == { r \in rows : r.site = k /\ r.watch_id = watch_id }

\* C11: after any sequence of calls the store holds exactly one row per pair
\* marked and none for any other pair; a mark_seen of a pair that had a row
\* returns Ok and leaves the table, the row's first_seen included, as it
\* was; a mark_seen of a new pair adds one row and changes no other; and
\* has_seen answers true for a pair exactly when it was marked, so after a
\* first and after a repeated mark_seen alike.
C11_MarkSeenIdempotent ==
    LET c == storeCall.last IN
    /\ \A s \in Sites, id \in StoreIds :
         /\ Cardinality(RowsOf(store, key(s), id)) =
              (IF <<key(s), id>> \in storeCall.marked THEN 1 ELSE 0)
         /\ has_seen(store, s, id) <=> <<key(s), id>> \in storeCall.marked
    /\ Cardinality(store) = Cardinality(storeCall.marked)
    /\ c.op = "mark_seen" =>
         /\ c.result = "ok"
         /\ has_seen(store, c.site, c.watch_id)
         /\ c.before \subseteq store
         /\ RowsOf(c.before, key(c.site), c.watch_id) # {} => store = c.before
         /\ RowsOf(c.before, key(c.site), c.watch_id) = {} =>
              Cardinality(store) = Cardinality(c.before) + 1
    /\ c.op = "has_seen" =>
         c.result = (<<key(c.site), c.watch_id>> \in storeCall.marked)

\* a pair marked at time 1 was marked again at time 3: its row still says 1
C11_Witness ==
    LET c == storeCall.last IN
    /\ c.op = "mark_seen"
    /\ storeCall.now = 3
    /\ \E r \in c.before :
         r.site = key(c.site) /\ r.watch_id = c.watch_id /\ r.first_seen = 1
    /\ store = c.before
    /\ Cardinality(store) = 2

----------------------------------------------------------------------------
(* The store connection under join_all, storage/sqlite.rs l.11-74 and      *)
(* main.rs l.69-122.  join_all polls the sites' futures on the one task    *)
(* that runs main; a polled future runs until its next await.  has_seen    *)
(* and mark_seen take the std Mutex on entry and drop the guard on return, *)
(* with no await in between.                                               *)

InitLock ==
    /\ mainPc = "join"
    /\ cycle = 1
    /\ task = [s \in Sites |-> IdleTask]
    /\ hist = [s \in Sites |-> EmptyHist]
    /\ fetch = IdleFetch
    /\ RestOfLockIdle
    /\ store = {}
    /\ conn = [holder |-> NoneVal]
    /\ \E n \in [Sites -> 0..MaxCands] :
         sched = [ running |-> NoneVal,
                   pc |-> [s \in Sites |-> "await_scrape"],
                   left |-> n,
                   watch_id |-> [s \in Sites |-> NoneVal],
                   seen |-> [s \in Sites |-> FALSE] ]

\* positions at which a future is suspended in an await
AwaitPcs == {"await_scrape", "await_notify", "await_sleep"}

\* join_all polls a future whose await is ready; it resumes after the await
Resume(s) ==
    /\ sched.running = NoneVal
    /\ sched.pc[s] \in AwaitPcs
    /\ sched' = [sched EXCEPT
                   !.running = s,
                   !.pc[s] = IF @ = "await_notify" THEN "mark_seen_lock" ELSE "for"]
    /\ UNCHANGED << mainPc, cycle, task, hist, store, fetch, conn, restOfLock >>

\* `for listing in listings`: the next listing's id is computed and has_seen
\* is entered, or the future returns
LoopHead(s) ==
    /\ sched.running = s
    /\ sched.pc[s] = "for"
    /\ IF sched.left[s] = 0
       THEN sched' = [sched EXCEPT !.running = NoneVal, !.pc[s] = "done"]
       ELSE \E id \in StoreIds :
              sched' = [sched EXCEPT !.pc[s] = "has_seen_lock", !.watch_id[s] = id,
                                     !.left[s] = @ - 1]
    /\ UNCHANGED << mainPc, cycle, task, hist, store, fetch, conn, restOfLock >>

\* self.conn.lock().unwrap(): returns the guard once the mutex is free; the
\* thread waits in lock() while another holds it
Lock(s) ==
    /\ sched.running = s
    /\ sched.pc[s] \in {"has_seen_lock", "mark_seen_lock"}
    /\ conn.holder = NoneVal
    /\ conn' = [conn EXCEPT !.holder = s]
    /\ sched' = [sched EXCEPT !.pc[s] = IF @ = "has_seen_lock" THEN "has_seen_query"
                                                                ELSE "mark_seen_query"]
    /\ UNCHANGED << mainPc, cycle, task, hist, store, fetch, restOfLock >>

\* the statement runs on the connection: query_row / execute, Ok or Err
Query(s) ==
    /\ sched.running = s
    /\ sched.pc[s] \in {"has_seen_query", "mark_seen_query"}
    /\ \E r \in {"ok", "err"} :
         IF r = "err"
         THEN /\ sched' = [sched EXCEPT !.pc[s] = "ret_err"]
              /\ UNCHANGED store
         ELSE IF sched.pc[s] = "has_seen_query"
         THEN /\ sched' = [sched EXCEPT !.pc[s] = "has_seen_ret",
                                        !.seen[s] = has_seen(store, s, sched.watch_id[s])]
              /\ UNCHANGED store
         ELSE /\ sched' = [sched EXCEPT !.pc[s] = "mark_seen_ret"]
              /\ store' = mark_seen(store, s, sched.watch_id[s], 0)
    /\ UNCHANGED << mainPc, cycle, task, hist, fetch, conn, restOfLock >>

\* Return with the guard still alive when the future suspends
Return_guard_kept(s) ==
    /\ sched.running = s
    /\ sched.pc[s] \in {"has_seen_ret", "mark_seen_ret", "ret_err"}
    /\ sched' =
         IF sched.pc[s] = "ret_err"
         THEN [sched EXCEPT !.running = NoneVal, !.pc[s] = "done"]
         ELSE IF sched.pc[s] = "mark_seen_ret"
         THEN [sched EXCEPT !.running = NoneVal, !.pc[s] = "await_sleep"]
         ELSE IF sched.seen[s]
         THEN [sched EXCEPT !.pc[s] = "for"]
         ELSE [sched EXCEPT !.running = NoneVal, !.pc[s] = "await_notify"]
    /\ conn' = IF sched'.running = NoneVal THEN conn ELSE [conn EXCEPT !.holder = NoneVal]
    /\ UNCHANGED << mainPc, cycle, task, hist, store, fetch, restOfLock >>

\* the store method returns and its guard is dropped.  Err: `?` returns from
\* the future (main.rs l.86, l.97).  has_seen true: next listing.  has_seen
\* false: the future suspends in send_notification(..).await.  mark_seen:
\* the future suspends in the 1 s sleep.
Return(s) ==
    /\ sched.running = s
    /\ sched.pc[s] \in {"has_seen_ret", "mark_seen_ret", "ret_err"}
    /\ conn' = [conn EXCEPT !.holder = NoneVal]
    /\ sched' =
         IF sched.pc[s] = "ret_err"
         THEN [sched EXCEPT !.running = NoneVal, !.pc[s] = "done"]
         ELSE IF sched.pc[s] = "mark_seen_ret"
         THEN [sched EXCEPT !.running = NoneVal, !.pc[s] = "await_sleep"]
         ELSE IF sched.seen[s]
         THEN [sched EXCEPT !.pc[s] = "for"]
         ELSE [sched EXCEPT !.running = NoneVal, !.pc[s] = "await_notify"]
    /\ UNCHANGED << mainPc, cycle, task, hist, store, fetch, restOfLock >>

NextLock ==
    \E s \in Sites : Resume(s) \/ LoopHead(s) \/ Lock(s) \/ Query(s) \/ Return(s)

SpecLock == InitLock /\ [][NextLock]_vars

\* the futures inside a store method, between lock() and the return
InStoreOp ==
    { s \in Sites : sched.pc[s] \in {"has_seen_query", "mark_seen_query",
                                     "has_seen_ret", "mark_seen_ret", "ret_err"} }

\* C12: at most one future is inside a store operation and it holds the
\* guard; a future that is not being polled (suspended in an await, or
\* returned) never holds the guard; a future that calls lock() finds the
\* mutex free, so the thread never waits in lock(); the table keeps at most
\* one row per key; and as long as a future has not returned, some step is
\* possible.
C12_StoreCallsExclusive ==
    /\ Cardinality(InStoreOp) <= 1
    /\ \A s \in Sites :
         /\ s \in InStoreOp <=> conn.holder = s
         /\ conn.holder = s => sched.running = s
         /\ (sched.running = s /\ sched.pc[s] \in {"has_seen_lock", "mark_seen_lock"}) =>
              conn.holder = NoneVal
    /\ \A r1, r2 \in store :
         (r1.site = r2.site /\ r1.watch_id = r2.watch_id) => r1 = r2
    /\ (\E s \in Sites : sched.pc[s] # "done") => ENABLED NextLock

\* one future is suspended between its has_seen and its mark_seen while the
\* other executes a mark_seen of the same id
C12_Witness ==
    \E s, t \in Sites :
      /\ sched.pc[s] = "await_notify"
      /\ sched.pc[t] = "mark_seen_query"
      /\ conn.holder = t
      /\ sched.watch_id[s] = sched.watch_id[t]

----------------------------------------------------------------------------
(* generate_composite_id on its own, models/watch.rs l.126-193 *)

Brands == { EMOJI_QUESTION, <<"R">>, <<" ", "r">> }
Models == { EMOJI_QUESTION, <<"x">> }
References == { EMOJI_QUESTION, <<>>, <<"7">> }
Years == { EMOJI_QUESTION, <<>> }
PricesEur == { <<>>, <<"1", "2", "0", "0">> }
PricesUsd == { Nothing, Some(<<"9">>), Some(<<>>) }
CaseMaterials == { EMOJI_QUESTION, <<"s">> }
Titles == { <<"t">>, <<"y">> }
WatchUrls == { <<>>, <<"u">> }

\* the listings an adapter can hand to generate_composite_id
Listings ==
    { [ DefaultListing EXCEPT
          !.brand = b, !.model = m, !.reference = r, !.year = y,
          !.price_eur_raw_for_hash = pe, !.price_usd_raw_for_hash = pu,
          !.case_material = cm, !.title = t, !.watch_url = u ] :
      b \in Brands, m \in Models, r \in References, y \in Years,
      pe \in PricesEur, pu \in PricesUsd, cm \in CaseMaterials,
      t \in Titles, u \in WatchUrls }

\* the listings that differ from w in brand spelling, title, URL or display
\* fields only
Variants(w) ==
    { [ w EXCEPT !.brand = b, !.title = t, !.watch_url = u, !.price_eur_display = d ] :
      b \in Brands, t \in Titles, u \in WatchUrls, d \in { EMOJI_QUESTION, <<"1", "E">> } }

InitId ==
    /\ mainPc = "tick"
    /\ cycle = 0
    /\ task = [s \in Sites |-> IdleTask]
    /\ hist = [s \in Sites |-> EmptyHist]
    /\ store = {}
    /\ fetch = IdleFetch
    /\ RestOfIdIdle
    /\ \E a \in Listings : \E b \in Variants(a) :
         idCall = [pc |-> "call", l1 |-> a, l2 |-> b, id1 |-> NoneVal, id2 |-> NoneVal]

\* both listings are given their identifier
ComputeIds ==
    /\ idCall.pc = "call"
    /\ idCall' = [idCall EXCEPT !.pc = "done",
                                !.id1 = generate_composite_id(idCall.l1),
                                !.id2 = generate_composite_id(idCall.l2)]
    /\ UNCHANGED << mainPc, cycle, task, hist, store, fetch, restOfId >>

NextId == ComputeIds

SpecId == InitId /\ [][NextId]_vars

\* the price token of a listing
PriceToken(w) ==
    IF w.price_usd_raw_for_hash # Nothing
    THEN w.price_usd_raw_for_hash[1] ELSE w.price_eur_raw_for_hash

\* brand, model, reference, price token, year, case material, normalized
NormalizedKey(w) ==
    << trim(to_lowercase(w.brand)), trim(to_lowercase(w.model)),
       RemoveSpaces(to_lowercase(w.reference)), PriceToken(w),
       trim(to_lowercase(w.year)),
       IF w.case_material = EMOJI_QUESTION THEN <<>>
       ELSE trim(to_lowercase(w.case_material)) >>

\* the normalized fields that are not empty, joined with "|"
PrimaryString(w) == JoinBar(SelectSeq(NormalizedKey(w), LAMBDA c : c # <<>>))

\* title, price token and (if not empty) URL, joined with "|" without empties
FallbackString(w) ==
    JoinBar(SelectSeq(<< trim(to_lowercase(w.title)), PriceToken(w),
                         trim(to_lowercase(w.watch_url)) >>, LAMBDA c : c # <<>>))

\* the number of "|" in a string
Separators(q) == Cardinality({ i \in DOMAIN q : q[i] = "|" })

\* how many of brand, model, reference, price token are present and known
EssentialPresent(w) ==
    Cardinality({ i \in 1..4 :
                    NormalizedKey(w)[i] # <<>> /\ NormalizedKey(w)[i] # EMOJI_QUESTION })

\* the condition under which the fallback key is to be hashed
FallbackCase(w) ==
    \/ PrimaryString(w) = <<>>
    \/ Separators(PrimaryString(w)) < 2
    \/ EssentialPresent(w) < 2

C14_FallbackExactlyWhen ==
    idCall.pc = "done" =>
      idCall.id1 = (IF FallbackCase(idCall.l1) THEN FallbackString(idCall.l1)
                    ELSE PrimaryString(idCall.l1))

\* brand, model and reference unknown, price 1200: four separators in the
\* primary string, one essential field, the fallback string is hashed
C14_Witness ==
    /\ idCall.pc = "done"
    /\ idCall.l1.brand = EMOJI_QUESTION
    /\ idCall.l1.model = EMOJI_QUESTION
    /\ idCall.l1.reference = EMOJI_QUESTION
    /\ PriceToken(idCall.l1) = <<"1", "2", "0", "0">>
    /\ Separators(PrimaryString(idCall.l1)) >= 2
    /\ idCall.id1 = FallbackString(idCall.l1)
    /\ idCall.id1 # PrimaryString(idCall.l1)

----------------------------------------------------------------------------
(* clean_text on its own, parsers/mod.rs l.13-21 *)

MaxTokens == 3

\* pieces of text as they occur in pages
TextTokens ==
    { <<"&">>, <<"a", "m", "p", ";">>, <<"#", "3", "2", ";">>,
      <<"n", "b", "s", "p", ";">>, <<" ">>, <<"x">> }

\* texts of up to n tokens
RECURSIVE TextsUpTo(_)
TextsUpTo(n) ==
    IF n = 0 THEN {<<>>}
    ELSE TextsUpTo(n - 1) \cup { t \o k : t \in TextsUpTo(n - 1), k \in TextTokens }

InitClean ==
    /\ mainPc = "tick"
    /\ cycle = 0
    /\ task = [s \in Sites |-> IdleTask]
    /\ hist = [s \in Sites |-> EmptyHist]
    /\ store = {}
    /\ fetch = IdleFetch
    /\ RestOfCleanIdle
    /\ \E t \in TextsUpTo(MaxTokens) :
         cleanCall = [pc |-> "call", text |-> t, out |-> <<>>]

\* clean_text(text)
CleanText ==
    /\ cleanCall.pc = "call"
    /\ cleanCall' = [cleanCall EXCEPT !.pc = "done", !.out = clean_text(cleanCall.text)]
    /\ UNCHANGED << mainPc, cycle, task, hist, store, fetch, restOfClean >>

NextClean == CleanText

SpecClean == InitClean /\ [][NextClean]_vars

\* no whitespace at either end and no two whitespace characters in a row
SingleSpaced(q) ==
    /\ q # <<>> => ~IsWhitespace(q[1]) /\ ~IsWhitespace(q[Len(q)])
    /\ \A i \in 1..(Len(q) - 1) : ~(IsWhitespace(q[i]) /\ IsWhitespace(q[i + 1]))

\* C15 (as claimed): cleaning a cleaned text changes nothing, and a cleaned
\* text has no whitespace at its ends and no run of whitespace.
C15_CleanTextIdempotent ==
    cleanCall.pc = "done" =>
      /\ clean_text(cleanCall.out) = cleanCall.out
      /\ SingleSpaced(cleanCall.out)

----------------------------------------------------------------------------
(* ExchangeRateClient, utils/exchange_rate.rs l.35-90.  Time is counted in *)
(* hours, rates in hundredths.                                             *)

MaxHours == 48

\* Duration::hours(24)
CACHE_HOURS == 24

\* let fallback_rate = 0.92
FALLBACK_RATE == 92

\* hours that pass between two calls
HourSteps == {12}

\* rates the provider quotes
ProviderRates == {90, 95}

\* what the GET to the provider comes to: a transport error, a non-success
\* status, a success status whose body is not JSON (response.json() is
\* Err), JSON without rates.EUR as a number, or a quote
ProviderResponses ==
    { [kind |-> k, value |-> 0] : k \in {"transport", "status", "bad_body", "no_eur"} }
    \cup { [kind |-> "quote", value |-> v] : v \in ProviderRates }

\* ExchangeRateCache::default
EmptyCache == [rate |-> Nothing, last_updated |-> Nothing]

\* `if Utc::now() - last_updated < Duration::hours(24)` with an inclusive bound
CacheValid_inclusive(cache, now) ==
    /\ cache.rate # Nothing
    /\ cache.last_updated # Nothing
    /\ now - cache.last_updated[1] <= CACHE_HOURS

\* the cache holds a rate less than 24 hours old (l.38-43)
CacheValid(cache, now) ==
    /\ cache.rate # Nothing
    /\ cache.last_updated # Nothing
    /\ now - cache.last_updated[1] < CACHE_HOURS

\* get_usd_to_eur_rate at time `now` when the provider would answer `resp`:
\* the cache afterwards, whether a GET was sent, and the Result
get_usd_to_eur_rate(cache, now, resp) ==
    IF CacheValid(cache, now)
    THEN [cache |-> cache, fetched |-> FALSE, result |-> [tag |-> "ok", rate |-> cache.rate[1]]]
    ELSE IF resp.kind = "quote"
    THEN [cache |-> [rate |-> Some(resp.value), last_updated |-> Some(now)],
          fetched |-> TRUE, result |-> [tag |-> "ok", rate |-> resp.value]]
    ELSE IF resp.kind = "bad_body"
    THEN [cache |-> cache, fetched |-> TRUE, result |-> [tag |-> "err", rate |-> 0]]
    ELSE IF cache.rate # Nothing
    THEN [cache |-> cache, fetched |-> TRUE, result |-> [tag |-> "ok", rate |-> cache.rate[1]]]
    ELSE [cache |-> [rate |-> Some(FALLBACK_RATE), last_updated |-> Some(now)],
          fetched |-> TRUE, result |-> [tag |-> "ok", rate |-> FALLBACK_RATE]]

\* TropicalWatchScraper::scrape, scrapers/tropicalwatch.rs l.47-75, and its
\* process_watch, l.149-202
IdleTw ==
    [ pc |-> "idle", eur_rate |-> 0, rate_failed |-> FALSE, result |-> "none",
      cause |-> "none", cands |-> 0, left |-> <<>>, listings |-> <<>>, body_errs |-> 0 ]

\* ExchangeRateClient::new, and no scrape under way
InitRate ==
    /\ mainPc = "tick"
    /\ cycle = 0
    /\ task = [s \in Sites |-> IdleTask]
    /\ hist = [s \in Sites |-> EmptyHist]
    /\ store = {}
    /\ fetch = IdleFetch
    /\ RestOfRateIdle
    /\ rateClient = [ now |-> 0, cache |-> EmptyCache,
                      last_good |-> Nothing,   \* the last rate a GET delivered
                      call |-> [made |-> FALSE] ]
    /\ tw = IdleTw

\* time passes between two cycles
HoursPass ==
    /\ tw.pc = "idle"
    /\ \E d \in HourSteps :
         /\ rateClient.now + d <= MaxHours
         /\ rateClient' = [rateClient EXCEPT !.now = @ + d]
    /\ UNCHANGED << mainPc, cycle, task, hist, store, fetch, tw, restOfRate >>

\* the client after a call that met `resp`: cache, the last delivered rate,
\* and the record of the call
AfterRateCall(rc, resp) ==
    LET r == get_usd_to_eur_rate(rc.cache, rc.now, resp)
    IN  [ rc EXCEPT
            !.cache = r.cache,
            !.last_good = IF r.fetched /\ resp.kind = "quote" THEN Some(resp.value) ELSE @,
            !.call = [ made |-> TRUE, at |-> rc.now, fetched |-> r.fetched, result |-> r.result,
                       outcome |-> IF r.fetched THEN resp.kind ELSE "cached",
                       cache_before |-> rc.cache,
                       last_good_before |-> rc.last_good ] ]

\* price_usd_raw of the candidates of a listing page: a number, or nothing
UsdPrices == { <<>>, <<"9">> }

\* the number a price_usd_raw parses to
ParseUsd(p) == IF p = <<"9">> THEN 9 ELSE 0

\* price_eur_display as process_watch sets it (l.165-184): the sentinel of
\* Default unless price_usd_raw is a number
PriceDisplay(price_usd_raw, eur_rate) ==
    IF price_usd_raw # <<>> /\ price_usd_raw # EMOJI_QUESTION
    THEN [known |-> TRUE, amount |-> ParseUsd(price_usd_raw) * eur_rate]
    ELSE [known |-> FALSE, amount |-> 0]

\* a cycle calls scrape
TwStart ==
    /\ tw.pc = "idle"
    /\ tw' = [IdleTw EXCEPT !.pc = "rate"]
    /\ UNCHANGED << mainPc, cycle, task, hist, store, fetch, rateClient, restOfRate >>

\* self.exchange_rate_client.get_usd_to_eur_rate(client).await? (l.52)
TwRate ==
    /\ tw.pc = "rate"
    /\ \E resp \in ProviderResponses :
         LET rc == AfterRateCall(rateClient, resp)
             failed == rc.call.fetched /\ resp.kind # "quote"
         IN  /\ rateClient' = rc
             /\ tw' = IF rc.call.result.tag = "err"
                      THEN [tw EXCEPT !.pc = "done", !.result = "err", !.cause = "rate",
                                      !.rate_failed = failed]
                      ELSE [tw EXCEPT !.pc = "list", !.eur_rate = rc.call.result.rate,
                                      !.rate_failed = failed]
    /\ UNCHANGED << mainPc, cycle, task, hist, store, fetch, restOfRate >>

\* the listing page: fetch_with_retry(..).await?, text().await?,
\* extract_watch_data(..)? (l.54-58); `prices` are the price_usd_raw of the
\* candidates that carry a url
TwList ==
    /\ tw.pc = "list"
    /\ \/ tw' = [tw EXCEPT !.pc = "done", !.result = "err", !.cause = "list"]
       \/ \E prices \in SeqsUpTo(UsdPrices, MaxCands) :
            tw' = IF prices = <<>>
                  THEN [tw EXCEPT !.pc = "done", !.result = "ok"]
                  ELSE [tw EXCEPT !.pc = "detail", !.cands = Len(prices), !.left = prices]
    /\ UNCHANGED << mainPc, cycle, task, hist, store, fetch, rateClient, restOfRate >>

\* process_watch of the next candidate: the listing with its display price,
\* then the detail fetch: enriched, fetch failed (listing kept), or body
\* read failed (`?`, l.194: Err, logged by scrape, listing not pushed)
TwDetail ==
    /\ tw.pc = "detail"
    /\ \E outcome \in {"enriched", "fetch_err", "body_err"} :
         LET watch == [ price_usd_raw_for_hash |-> Some(Head(tw.left)),
                        price_eur_display |-> PriceDisplay(Head(tw.left), tw.eur_rate) ]
             left == Tail(tw.left)
         IN  tw' = [tw EXCEPT
                      !.left = left,
                      !.listings = IF outcome = "body_err" THEN @ ELSE Append(@, watch),
                      !.body_errs = IF outcome = "body_err" THEN @ + 1 ELSE @,
                      !.pc = IF left = <<>> THEN "done" ELSE "detail",
                      !.result = IF left = <<>> THEN "ok" ELSE @]
    /\ UNCHANGED << mainPc, cycle, task, hist, store, fetch, rateClient, restOfRate >>

\* the cycle is over
TwReturn ==
    /\ tw.pc = "done"
    /\ tw' = IdleTw
    /\ UNCHANGED << mainPc, cycle, task, hist, store, fetch, rateClient, restOfRate >>

NextRate == HoursPass \/ TwStart \/ TwRate \/ TwList \/ TwDetail \/ TwReturn

SpecRate == InitRate /\ [][NextRate]_vars

\* C16 (as claimed): of every call: a cached rate younger than the TTL is
\* returned without a GET; otherwise a GET is sent; when that GET does not
\* deliver a rate and a rate was delivered before, the last delivered rate
\* is returned; and the default is returned only if no GET ever delivered
\* a rate.
C16_CachePolicy ==
    LET c == rateClient.call IN
    c.made =>
      /\ CacheValid(c.cache_before, c.at) =>
           ~c.fetched /\ c.result = [tag |-> "ok", rate |-> c.cache_before.rate[1]]
      /\ ~CacheValid(c.cache_before, c.at) => c.fetched
      /\ (c.fetched /\ c.outcome # "quote" /\ c.last_good_before # Nothing) =>
           c.result = [tag |-> "ok", rate |-> c.last_good_before[1]]
      /\ (c.result.tag = "ok" /\ c.result.rate = FALLBACK_RATE) =>
           rateClient.last_good = Nothing

\* C17 (as claimed): a scrape in which the GET to the rate provider failed
\* does not fail because of it: unless its own listing page failed, it
\* returns Ok with a listing for every candidate whose detail body could be
\* read, the display price being a number or the sentinel.
C17_RateFailureNotFatal ==
    (tw.pc = "done" /\ tw.rate_failed /\ tw.cause # "list") =>
      /\ tw.result = "ok"
      /\ Len(tw.listings) = tw.cands - tw.body_errs

----------------------------------------------------------------------------
(* Properties of the listings the orchestrator is handed *)

\* C18: every listing a scrape has returned and the orchestrator holds,
\* still to be looked up or being notified and marked, has a non-empty
\* watch_url, and a scrape returns no more listings than it extracted
\* candidates with a url: elements without a url never become listings.
C18_WatchUrlNonEmpty ==
    \A s \in Sites :
      /\ \A i \in DOMAIN task[s].listings : task[s].listings[i].watch_url # <<>>
      /\ task[s].pc \in {"notify", "pace"} => task[s].listing.watch_url # <<>>
      /\ task[s].pc = "detail_fetch" => task[s].watch.watch_url # <<>>
      /\ hist[s].scrape = "ok" => hist[s].returned <= hist[s].cands

\* a page held an element without a url and one with; the one with a url
\* reached the lookup
C18_Witness ==
    \E s \in Sites :
      /\ hist[s].no_url = 1
      /\ hist[s].cands = 1
      /\ hist[s].scrape = "ok"
      /\ hist[s].returned = 1
      /\ Len(hist[s].examined) = 1

----------------------------------------------------------------------------
(* The monitoring loop *)

\* C19: the monitoring loop never terminates on its own: whatever fetch
\* failures, adapter errors, store errors and notification failures occur in
\* a cycle, the loop is either waiting for the next tick or waiting for the
\* sites' futures of the cycle in progress, so that the cycle can complete
\* and a later one can start.  Its safety part, stated here, is that main is
\* always at one of these two places of the loop.
C19_LoopNeverTerminates == mainPc \in {"tick", "join"}

----------------------------------------------------------------------------
(* Order within one site *)

\* the urls of a sequence of listings
UrlsOf(listings) == [i \in DOMAIN listings |-> listings[i].watch_url]

\* the candidates whose process_watch has returned a listing, in extraction
\* order: those started, less the ones that ended with Err
Survivors(h) ==
    LET kept == SelectSeq([i \in 1..Len(h.detail) |-> i],
                          LAMBDA i : h.detail[i] # "body_err")
    IN  [j \in DOMAIN kept |-> h.extracted[kept[j]]]

\* the number of examined listings the store did not know
Unseen(h) == Cardinality({ k \in DOMAIN h.examined : ~h.examined[k].seen })

\* candidates are enriched one after another in extraction order
SerialInExtractionOrder(s) ==
    LET h == hist[s]
        in_flight == task[s].pc \in {"detail_sleep", "detail_fetch", "detail_body"}
    IN  /\ Len(h.started) <= Len(h.extracted)
        /\ h.started = SubSeq(h.extracted, 1, Len(h.started))
        /\ Len(h.started) = Len(h.detail) + (IF in_flight THEN 1 ELSE 0)
        /\ in_flight =>
             /\ task[s].watch.watch_url = h.started[Len(h.started)]
             /\ UrlsOf(task[s].listings) = Survivors(h)

\* scrape returns the surviving listings in extraction order
ReturnedInExtractionOrder(s) ==
    LET h == hist[s]
    IN  h.scrape = "ok" => h.returned_urls = Survivors(h)

\* the orchestrator takes the listings in the order returned and is done
\* with one before it looks up the next
OneListingAtATime(s) ==
    LET h == hist[s]
        n == Len(h.examined)
    IN  /\ \A k \in 1..n : /\ h.examined[k].pos = k
                           /\ h.examined[k].url = h.returned_urls[k]
        /\ task[s].pc \in {"list_loop", "notify", "pace"} =>
             /\ UrlsOf(task[s].listings) = SubSeq(h.returned_urls, n + 1, h.returned)
             /\ \A k \in 1..(n - 1) : has_seen(store, s, h.examined[k].id)
        /\ task[s].pc = "notify" =>
             /\ n > 0 /\ ~h.examined[n].seen
             /\ task[s].listing.watch_url = h.examined[n].url
             /\ Len(h.notifs) = Unseen(h) - 1
        /\ task[s].pc \in {"list_loop", "pace"} =>
             /\ Len(h.notifs) = Unseen(h)
             /\ n > 0 => has_seen(store, s, h.examined[n].id)

\* C20: within one site order is preserved end to end: process_watch is
\* called for the candidates in extraction order and a call begins only when
\* the one before it has returned; scrape returns the surviving listings in
\* that order; the orchestrator looks the listings up in that order, and when
\* it looks one up, every listing before it has been notified and marked or
\* was already seen.
C20_OrderPreserved ==
    \A s \in Sites :
      /\ SerialInExtractionOrder(s)
      /\ ReturnedInExtractionOrder(s)
      /\ OneListingAtATime(s)

\* a site extracted two candidates, enriched both, returned both and has
\* looked up both in that order, the first of them new
C20_Witness ==
    \E s \in Sites :
      /\ task[s].pc = "done"
      /\ hist[s].started = << <<"u", "1">>, <<"u", "2">> >>
      /\ hist[s].detail = <<"enriched", "enriched">>
      /\ hist[s].returned_urls = hist[s].started
      /\ Len(hist[s].examined) = 2
      /\ ~hist[s].examined[1].seen
      /\ Len(hist[s].notifs) >= 1

----------------------------------------------------------------------------
(* The detail fetches of one adapter's scrape, process_watch of each       *)
(* scraper, with a clock in milliseconds                                   *)

\* the six scrapers main.rs l.51-58 builds
Adapters ==
    { "WorldOfTime", "Grimmeissen", "TropicalWatch", "JuwelierExchange",
      "WatchOut", "Rueschenbeck" }

\* the delay halved
DetailDelayMs_half(a) == 500

\* the tokio::time::sleep before fetch_with_retry(client, &data.url, 3):
\* worldoftime.rs l.179, grimmeissen.rs l.174, tropicalwatch.rs l.190,
\* watch_out.rs l.321, rueschenbeck.rs l.253 (1 s), juwelier_exchange.rs
\* l.194 (1.5 s)
DetailDelayMs(a) == IF a = "JuwelierExchange" THEN 1500 ELSE 1000

\* how much later than asked a sleep can end, and how long a
\* fetch_with_retry can take, in ms
SleepLateness == {0, 250}
FetchDurations == {0, 2000}

IdlePw == [ pc |-> "idle", adapter |-> "none", left |-> 0, now |-> 0, events |-> <<>> ]

InitDelay ==
    /\ mainPc = "tick"
    /\ cycle = 0
    /\ task = [s \in Sites |-> IdleTask]
    /\ hist = [s \in Sites |-> EmptyHist]
    /\ store = {}
    /\ fetch = IdleFetch
    /\ RestOfDelayIdle
    /\ pw = IdlePw

\* scrape has extracted n candidates with a url and enters its loop
PwStart ==
    /\ pw.pc = "idle"
    /\ \E a \in Adapters, n \in 0..MaxCands :
         pw' = [IdlePw EXCEPT !.pc = "loop", !.adapter = a, !.left = n]
    /\ UNCHANGED << mainPc, cycle, task, hist, store, fetch, restOfDelay >>

\* `for data in watch_data`: process_watch builds the watch and starts its
\* sleep; after the last candidate scrape returns
PwLoop ==
    /\ pw.pc = "loop"
    /\ pw' = IF pw.left = 0
             THEN [pw EXCEPT !.pc = "done"]
             ELSE [pw EXCEPT !.pc = "sleep", !.left = @ - 1,
                             !.events = Append(@, [e |-> "sleep", at |-> pw.now])]
    /\ UNCHANGED << mainPc, cycle, task, hist, store, fetch, restOfDelay >>

\* the sleep ends, not before its duration has passed, and fetch_with_retry
\* sends the request for the detail page
PwWake ==
    /\ pw.pc = "sleep"
    /\ \E late \in SleepLateness :
         LET t == pw.now + DetailDelayMs(pw.adapter) + late
         IN  pw' = [pw EXCEPT !.pc = "fetch", !.now = t,
                              !.events = Append(@, [e |-> "get", at |-> t])]
    /\ UNCHANGED << mainPc, cycle, task, hist, store, fetch, restOfDelay >>

\* fetch_with_retry returns: Ok goes on to response.text(), Err is logged
\* and process_watch returns the watch as it is
PwFetchReturn ==
    /\ pw.pc = "fetch"
    /\ \E took \in FetchDurations, ok \in BOOLEAN :
         pw' = [pw EXCEPT !.pc = IF ok THEN "body" ELSE "loop", !.now = @ + took,
                          !.events = Append(@, [e |-> IF ok THEN "ok" ELSE "err",
                                                at |-> pw.now + took])]
    /\ UNCHANGED << mainPc, cycle, task, hist, store, fetch, restOfDelay >>

\* detail_response.text() returns; with Ok or Err process_watch returns and
\* the loop goes on
PwBody ==
    /\ pw.pc = "body"
    /\ pw' = [pw EXCEPT !.pc = "loop"]
    /\ UNCHANGED << mainPc, cycle, task, hist, store, fetch, restOfDelay >>

\* scrape has returned; the next cycle calls it again
PwReturn ==
    /\ pw.pc = "done"
    /\ pw' = IdlePw
    /\ UNCHANGED << mainPc, cycle, task, hist, store, fetch, restOfDelay >>

NextDelay == PwStart \/ PwLoop \/ PwWake \/ PwFetchReturn \/ PwBody \/ PwReturn

SpecDelay == InitDelay /\ [][NextDelay]_vars

\* C21: in every adapter each detail-page fetch is preceded by a politeness
\* delay of at least 1 second: the request follows a sleep that began at least
\* 1000 ms earlier and began only after the previous detail fetch had
\* returned, with Ok or with Err, so two detail fetches of a scrape are at
\* least 1000 ms apart.
C21_PolitenessDelay ==
    LET ev == pw.events
    IN  \A i \in DOMAIN ev :
          ev[i].e = "get" =>
            /\ i > 1
            /\ ev[i - 1].e = "sleep"
            /\ ev[i].at >= ev[i - 1].at + 1000
            /\ \A j \in 1..(i - 1) :
                 /\ ev[j].e = "get" => ev[i].at >= ev[j].at + 1000
                 /\ ev[j].e \in {"ok", "err"} => ev[i].at >= ev[j].at + 1000

\* an adapter has sent a second detail request after the first one failed
\* at once
C21_Witness ==
    /\ Len(pw.events) >= 5
    /\ pw.events[2].e = "get"
    /\ pw.events[3].e = "err"
    /\ pw.events[3].at = pw.events[2].at
    /\ pw.events[5].e = "get"

----------------------------------------------------------------------------
(* Detail parsers, parsers/details.rs *)

\* texts of up to n of the given tokens
RECURSIVE TextsOf(_, _)
TextsOf(tokens, n) ==
    IF n = 0 THEN {<<>>}
    ELSE TextsOf(tokens, n - 1) \cup { t \o k : t \in TextsOf(tokens, n - 1), k \in tokens }

\* U+0663, the Arabic-Indic digit three, written as one character
IndicThree == "u0663"

\* the decimal digits used here; the regex crate's \d is Unicode-aware, so
\* U+0663 is one of them
AsciiDigits == {"0", "1", "2", "3", "4", "5", "6", "7", "8", "9"}
IsDigit(c) == c \in AsciiDigits \cup {IndicThree}

\* YEAR_REGEX matches at the start of q: 19[4-9]\d or 20[0-2]\d (l.5-8)
YearPrefix(q) ==
    /\ Len(q) >= 4
    /\ \/ q[1] = "1" /\ q[2] = "9" /\ q[3] \in {"4", "5", "6", "7", "8", "9"}
       \/ q[1] = "2" /\ q[2] = "0" /\ q[3] \in {"0", "1", "2"}
    /\ IsDigit(q[4])

\* Regex::find, read from the right end
RECURSIVE year_find_last(_)
year_find_last(q) ==
    IF Len(q) < 4 THEN Nothing
    ELSE IF YearPrefix(SubSeq(q, Len(q) - 3, Len(q))) THEN Some(SubSeq(q, Len(q) - 3, Len(q)))
    ELSE year_find_last(SubSeq(q, 1, Len(q) - 1))

\* YEAR_REGEX.find(q): the match that starts first
RECURSIVE year_find(_)
year_find(q) ==
    IF Len(q) < 4 THEN Nothing
    ELSE IF YearPrefix(q) THEN Some(SubSeq(q, 1, 4))
    ELSE year_find(Tail(q))

\* parse_year_from_string (l.11-25); title is an Option
parse_year_from_string(text, title) ==
    IF year_find(text) # Nothing THEN year_find(text)[1]
    ELSE IF title # Nothing /\ year_find(title[1]) # Nothing THEN year_find(title[1])[1]
    ELSE EMOJI_QUESTION

\* the longest text given to a parser, in tokens
MaxYearTokens == 3

\* pieces of text around years
YearTokens ==
    { <<"1", "9", "9", "9">>, <<"2", "0", "0", "5">>, <<"1", "9", "3", "9">>,
      <<"2", "0", "3", "0">>, <<"1", "9">>, <<"4">>, <<IndicThree>>, <<"x">>, <<" ">> }

\* the titles passed as fallback
YearFallbacks == {Nothing} \cup { Some(t) : t \in TextsOf(YearTokens, 1) }

InitYear ==
    /\ mainPc = "tick"
    /\ cycle = 0
    /\ task = [s \in Sites |-> IdleTask]
    /\ hist = [s \in Sites |-> EmptyHist]
    /\ store = {}
    /\ fetch = IdleFetch
    /\ RestOfParseIdle
    /\ \E t \in TextsOf(YearTokens, MaxYearTokens), f \in YearFallbacks :
         parseCall = [pc |-> "call", text |-> t, title |-> f, out |-> <<>>]

\* parse_year_from_string(text, title)
ParseYear ==
    /\ parseCall.pc = "call"
    /\ parseCall' = [parseCall EXCEPT
                       !.pc = "done",
                       !.out = parse_year_from_string(parseCall.text, parseCall.title)]
    /\ UNCHANGED << mainPc, cycle, task, hist, store, fetch, restOfParse >>

NextYear == ParseYear

SpecYear == InitYear /\ [][NextYear]_vars

\* the positions of q where four characters read 19[4-9]x or 20[0-2]x
YearPositions(q) ==
    { i \in 1..(Len(q) - 3) :
        /\ IsDigit(q[i + 3])
        /\ \/ <<q[i], q[i + 1]>> = <<"1", "9">> /\ q[i + 2] \in {"4", "5", "6", "7", "8", "9"}
           \/ <<q[i], q[i + 1]>> = <<"2", "0">> /\ q[i + 2] \in {"0", "1", "2"} }

\* the leftmost such run of q
LeftmostYear(q) ==
    LET i == CHOOSE p \in YearPositions(q) : \A r \in YearPositions(q) : p <= r
    IN  SubSeq(q, i, i + 3)

\* the number a digit stands for
DigitValue(c) ==
    IF c = IndicThree THEN 3
    ELSE CHOOSE v \in 0..9 :
           c = <<"0", "1", "2", "3", "4", "5", "6", "7", "8", "9">>[v + 1]

\* the number four digits stand for
YearValue(y) ==
    1000 * DigitValue(y[1]) + 100 * DigitValue(y[2]) + 10 * DigitValue(y[3])
    + DigitValue(y[4])

\* C22: parse_year(text, fallback) returns the leftmost 4-digit run of text
\* that reads 19[4-9]x or 20[0-2]x; if text has none, the leftmost such run of
\* fallback; if neither has one or fallback is absent, the unknown sentinel.
\* The result is the sentinel or a year from 1940 to 2029.
C22_ParseYear ==
    parseCall.pc = "done" =>
      LET text == parseCall.text
          title == parseCall.title
          out == parseCall.out
      IN  /\ YearPositions(text) # {} => out = LeftmostYear(text)
          /\ YearPositions(text) = {} /\ title # Nothing /\ YearPositions(title[1]) # {}
               => out = LeftmostYear(title[1])
          /\ YearPositions(text) = {} /\ (title = Nothing \/ YearPositions(title[1]) = {})
               => out = EMOJI_QUESTION
          /\ out # EMOJI_QUESTION =>
               /\ Len(out) = 4
               /\ \A i \in 1..4 : IsDigit(out[i])
               /\ YearValue(out) \in 1940..2029

\* a text with two different years and a fallback with a third has been
\* parsed
C22_Witness ==
    /\ parseCall.pc = "done"
    /\ Cardinality(YearPositions(parseCall.text)) >= 2
    /\ parseCall.text[1] = "x"
    /\ parseCall.title = Some(<<"2", "0", "0", "5">>)
    /\ parseCall.out = <<"1", "9", "9", "9">>

----------------------------------------------------------------------------
(* parse_box_papers_status, parsers/details.rs l.27-72 *)

\* what a status enum holds (models/watch.rs)
Statuses == {"Yes", "No", "Unknown"}

\* the cues of l.32-34
NoBoxCues ==
    { <<"o", "h", "n", "e", " ", "b", "o", "x">>, <<"n", "o", " ", "b", "o", "x">>, <<"k", "e", "i", "n", " ", "b", "o", "x">> }

\* the cues of l.36-39
NoPapersCues ==
    { <<"o", "h", "n", "e", " ", "p", "a", "p", "i", "e", "r", "e">>, <<"n", "o", " ", "p", "a", "p", "e", "r", "s">>,
      <<"k", "e", "i", "n", "e", " ", "p", "a", "p", "i", "e", "r", "e">>, <<"n", "o", " ", "c", "e", "r", "t", "i", "f", "i", "c", "a", "t", "e">> }

\* the cues of l.42-45
HasBoxCues ==
    { <<"m", "i", "t", " ", "b", "o", "x">>, <<"w", "i", "t", "h", " ", "b", "o", "x">>,
      <<"o", "r", "i", "g", "i", "n", "a", "l", "b", "o", "x">>, <<"o", "r", "i", "g", "i", "n", "a", "l", " ", "b", "o", "x">> }

\* the cues of l.48-52
HasPapersCues ==
    { <<"m", "i", "t", " ", "p", "a", "p", "i", "e", "r", "e">>, <<"w", "i", "t", "h", " ", "p", "a", "p", "e", "r", "s">>,
      <<"c", "e", "r", "t", "i", "f", "i", "c", "a", "t", "e">>, <<"g", "a", "r", "a", "n", "t", "i", "e">>,
      <<"w", "a", "r", "r", "a", "n", "t", "y">> }

\* text contains one of the cues
ContainsAny(text, cues) == \E c \in cues : Contains(text, c)

\* the status with the positive cue asked first
Decide_positive_first(no, has) == IF has THEN "Yes" ELSE IF no THEN "No" ELSE "Unknown"

\* l.55-61 and l.63-69
Decide(no, has) == IF no THEN "No" ELSE IF has THEN "Yes" ELSE "Unknown"

\* parse_box_papers_status (l.28-72): the pair (papers, box)
parse_box_papers_status(text) ==
    LET text_lower == to_lowercase(text)
        no_box == ContainsAny(text_lower, NoBoxCues)
        no_papers == ContainsAny(text_lower, NoPapersCues)
        has_box == \/ ContainsAny(text_lower, HasBoxCues)
                   \/ Contains(text_lower, <<"b", "o", "x">>) /\ ~no_box
        has_papers == \/ ContainsAny(text_lower, HasPapersCues)
                      \/ Contains(text_lower, <<"p", "a", "p", "i", "e", "r">>) /\ ~no_papers
    IN  << Decide(no_papers, has_papers), Decide(no_box, has_box) >>

\* the longest description given to the parser, in tokens
MaxCueTokens == 3

\* pieces of a description
CueTokens ==
    { <<"o", "h", "n", "e", " ">>, <<"n", "o", " ">>, <<"k", "e", "i", "n", " ">>,
      <<"m", "i", "t", " ">>, <<"w", "i", "t", "h", " ">>, <<"B", "o", "x">>,
      <<"b", "o", "x">>, <<"o", "r", "i", "g", "i", "n", "a", "l", "b", "o", "x">>, <<"P", "a", "p", "i", "e", "r", "e", "n">>,
      <<"p", "a", "p", "i", "e", "r", "e">>, <<"p", "a", "p", "e", "r", "s">>, <<"c", "e", "r", "t", "i", "f", "i", "c", "a", "t", "e">>,
      <<"G", "a", "r", "a", "n", "t", "i", "e">>, <<",", " ">>, <<"x">> }

InitBoxPapers ==
    /\ mainPc = "tick"
    /\ cycle = 0
    /\ task = [s \in Sites |-> IdleTask]
    /\ hist = [s \in Sites |-> EmptyHist]
    /\ store = {}
    /\ fetch = IdleFetch
    /\ RestOfParseIdle
    /\ \E t \in TextsOf(CueTokens, MaxCueTokens) :
         parseCall = [pc |-> "call", text |-> t, out |-> <<>>]

\* parse_box_papers_status(text)
ParseBoxPapers ==
    /\ parseCall.pc = "call"
    /\ parseCall' = [parseCall EXCEPT !.pc = "done",
                                      !.out = parse_box_papers_status(parseCall.text)]
    /\ UNCHANGED << mainPc, cycle, task, hist, store, fetch, restOfParse >>

NextBoxPapers == ParseBoxPapers

SpecBoxPapers == InitBoxPapers /\ [][NextBoxPapers]_vars

\* what the claim asks of one of the two: the negative cue first, then a
\* positive cue or the bare word, else Unknown
Expected(text, negative, positive, bare) ==
    IF ContainsAny(text, negative) THEN "No"
    ELSE IF ContainsAny(text, positive) \/ Contains(text, bare) THEN "Yes"
    ELSE "Unknown"

\* C23: parse_box_papers decides box and papers independently and
\* case-insensitively: for each of the two, an explicit negative cue yields No
\* even when a positive cue or the bare word is also present, otherwise a
\* positive cue or the bare word yields Yes, otherwise Unknown.  The papers
\* answer is a function of the papers cues alone and the box answer of the box
\* cues alone, and the lower-cased text gets the same answer.
C23_BoxPapers ==
    parseCall.pc = "done" =>
      LET low == to_lowercase(parseCall.text)
      IN  /\ parseCall.out[1] =
                Expected(low, NoPapersCues, HasPapersCues, <<"p", "a", "p", "i", "e", "r">>)
          /\ parseCall.out[2] = Expected(low, NoBoxCues, HasBoxCues, <<"b", "o", "x">>)
          /\ parse_box_papers_status(low) = parseCall.out

\* "originalboxohne Box": a negative box cue written with a capital next to
\* a positive one and the bare word, and no papers cue, gave
\* (papers = Unknown, box = No)
C23_Witness ==
    /\ parseCall.pc = "done"
    /\ parseCall.text = <<"o", "r", "i", "g", "i", "n", "a", "l", "b", "o", "x">>
                        \o <<"o", "h", "n", "e", " ">> \o <<"B", "o", "x">>
    /\ parseCall.out = <<"Unknown", "No">>

----------------------------------------------------------------------------
(* extract_reference, parsers/details.rs l.74-92 *)

\* the prefixes removed, in the order of l.80-83
REF_DOT == <<"R", "e", "f", ".">>
REF == <<"R", "e", "f">>
REFERENCE == <<"R", "e", "f", "e", "r", "e", "n", "c", "e">>
COLON == <<":">>

\* extract_reference: clean_text, the four replace calls one after another,
\* trim; an empty result becomes the sentinel
extract_reference(text) ==
    LET cleaned == trim(Replace(Replace(Replace(Replace(clean_text(text),
                        REF_DOT, <<>>), REF, <<>>), REFERENCE, <<>>), COLON, <<>>))
    IN  IF cleaned = <<>> THEN EMOJI_QUESTION ELSE cleaned

\* the longest reference value, in tokens
MaxRefTokens == 3

\* pieces of a reference value
RefTokens == { <<"1">>, <<"7">>, <<"A">>, <<"-">>, <<" ">> }

\* what stands in front of the value in a details table
RefLabels ==
    { <<>>, REF_DOT \o <<" ">>, REF \o <<" ">>, REFERENCE \o COLON \o <<" ">>,
      REF_DOT, COLON \o <<" ">>, REFERENCE \o <<" ">> }

InitReference ==
    /\ mainPc = "tick"
    /\ cycle = 0
    /\ task = [s \in Sites |-> IdleTask]
    /\ hist = [s \in Sites |-> EmptyHist]
    /\ store = {}
    /\ fetch = IdleFetch
    /\ RestOfParseIdle
    /\ \E l \in RefLabels, v \in TextsOf(RefTokens, MaxRefTokens) :
         parseCall = [pc |-> "call", label |-> l, value |-> v, out |-> <<>>]

\* extract_reference(label + value)
ExtractReference ==
    /\ parseCall.pc = "call"
    /\ parseCall' = [parseCall EXCEPT
                       !.pc = "done",
                       !.out = extract_reference(parseCall.label \o parseCall.value)]
    /\ UNCHANGED << mainPc, cycle, task, hist, store, fetch, restOfParse >>

NextReference == ExtractReference

SpecReference == InitReference /\ [][NextReference]_vars

\* C24 (as claimed): extract_reference removes every occurrence of "Ref.",
\* "Ref", "Reference" and ":" and trims, so that for a reference value v that
\* holds none of them and is clean, each of "Ref. v", "Ref v", "Reference: v"
\* and "v" yields v; an input with nothing left yields the unknown sentinel.
C24_ExtractReference ==
    parseCall.pc = "done" =>
      LET v == parseCall.value
          plain == v # <<>> /\ clean_text(v) = v
      IN  /\ plain /\ parseCall.label \in { <<>>, REF_DOT \o <<" ">>, REF \o <<" ">>,
                                            REFERENCE \o COLON \o <<" ">> }
               => parseCall.out = v
          /\ trim(v) = <<>> => parseCall.out = EMOJI_QUESTION

----------------------------------------------------------------------------
(* get_price_string_for_hash, parsers/price.rs l.5-23 *)

\* the number of digits at the start of q, at most n
RECURSIVE DigitsAhead(_, _)
DigitsAhead(q, n) ==
    IF n = 0 \/ q = <<>> \/ ~IsDigit(Head(q)) THEN 0
    ELSE 1 + DigitsAhead(Tail(q), n - 1)

\* [.,] and exactly n digits stand at the start of q
SepDigits(q, n) ==
    /\ Len(q) >= n + 1
    /\ q[1] \in {".", ","}
    /\ DigitsAhead(Tail(q), n) = n

\* (?:[.,]\d{3})* from the start of q, greedy: the characters it takes
RECURSIVE GroupsAhead(_)
GroupsAhead(q) ==
    IF SepDigits(q, 3) THEN 4 + GroupsAhead(SubSeq(q, 5, Len(q))) ELSE 0

\* the length of the match of PRICE_REGEX at the start of q, 0 if none:
\* \d{1,3}, then the groups, then (?:[.,]\d{2})?, each taking what it can
PriceMatchLen(q) ==
    LET d == DigitsAhead(q, 3)
        g == GroupsAhead(SubSeq(q, d + 1, Len(q)))
        c == IF SepDigits(SubSeq(q, d + g + 1, Len(q)), 2) THEN 3 ELSE 0
    IN  IF d = 0 THEN 0 ELSE d + g + c

\* PRICE_REGEX.find(q): the match that starts first
RECURSIVE price_find(_)
price_find(q) ==
    IF q = <<>> THEN Nothing
    ELSE IF PriceMatchLen(q) > 0 THEN Some(SubSeq(q, 1, PriceMatchLen(q)))
    ELSE price_find(Tail(q))

\* get_price_string_for_hash (l.11-23)
get_price_string_for_hash(price_text) ==
    IF price_find(price_text) # Nothing
    THEN trim(Replace(Replace(price_find(price_text)[1], <<".">>, <<>>), <<",">>, <<".">>))
    ELSE <<>>

\* the most groups of three digits after the leading group
MaxGroups == 2

\* the leading digits of an amount, and the groups of three after them
LeadingDigits == { <<>>, <<"1">>, <<"1", "2">>, <<"9", "5", "0">> }
ThreeDigits == { <<"2", "0", "0">>, <<"0", "0", "0">> }

\* amounts: the leading digits and up to MaxGroups groups; no digits at all
\* when the leading digits are missing
Amounts ==
    { <<l>> \o g : l \in LeadingDigits \ {<<>>}, g \in SeqsUpTo(ThreeDigits, MaxGroups) }
    \cup { <<>> }

\* how a page groups the digits, writes the decimals, and what stands around
GroupSeparators == { <<>>, <<".">>, <<",">> }
DecimalForms == { <<>>, <<",", "0", "0">>, <<",", "5", "0">>, <<".", "0", "0">> }
PricePrefixes == { <<>>, <<"a", "b", " ">> }
PriceSuffixes == { <<>>, <<" ", "E", "U", "R">> }

\* the groups of an amount written with a separator between them
RECURSIVE JoinWith(_, _)
JoinWith(groups, sep) ==
    IF groups = <<>> THEN <<>>
    ELSE IF Len(groups) = 1 THEN groups[1]
    ELSE groups[1] \o sep \o JoinWith(Tail(groups), sep)

\* the price text of a page
PriceText(c) ==
    c.prefix \o JoinWith(c.amount, c.sep)
    \o (IF c.amount = <<>> THEN <<>> ELSE c.decimals) \o c.suffix

InitPrice ==
    /\ mainPc = "tick"
    /\ cycle = 0
    /\ task = [s \in Sites |-> IdleTask]
    /\ hist = [s \in Sites |-> EmptyHist]
    /\ store = {}
    /\ fetch = IdleFetch
    /\ RestOfParseIdle
    /\ \E a \in Amounts, sep \in GroupSeparators, d \in DecimalForms,
          pre \in PricePrefixes, suf \in PriceSuffixes :
         parseCall = [pc |-> "call", amount |-> a, sep |-> sep, decimals |-> d,
                      prefix |-> pre, suffix |-> suf, out |-> <<>>]

\* get_price_string_for_hash(price_text)
PriceForHash ==
    /\ parseCall.pc = "call"
    /\ parseCall' = [parseCall EXCEPT
                       !.pc = "done",
                       !.out = get_price_string_for_hash(PriceText(parseCall))]
    /\ UNCHANGED << mainPc, cycle, task, hist, store, fetch, restOfParse >>

NextPrice == PriceForHash

SpecPrice == InitPrice /\ [][NextPrice]_vars

\* the part of a token before its decimal point
RECURSIVE IntegerPart(_)
IntegerPart(token) ==
    IF token = <<>> \/ Head(token) = "." THEN <<>>
    ELSE <<Head(token)>> \o IntegerPart(Tail(token))

\* C25 (as claimed): the token has no comma and at most one '.'; a text that
\* writes an amount without grouping or with dots between the groups, with or
\* without ",00"-like decimals and surrounding text, gets the digits of the
\* amount, followed at most by decimals; a text without digits gets the empty
\* string.
C25_PriceToken ==
    parseCall.pc = "done" =>
      LET out == parseCall.out
      IN  /\ Count(out, ",") = 0
          /\ Count(out, ".") <= 1
          /\ /\ parseCall.amount # <<>>
             /\ parseCall.sep \in { <<>>, <<".">> }
             /\ parseCall.decimals \in { <<>>, <<",", "0", "0">>, <<",", "5", "0">> }
             => IntegerPart(out) = JoinWith(parseCall.amount, <<>>)
          /\ parseCall.amount = <<>> => out = <<>>

----------------------------------------------------------------------------
(* get_condition_display, parsers/condition.rs l.3-63 *)

\* the mapping of l.10-20
condition_worldoftime(condition_raw, condition_lower) ==
    IF Contains(condition_lower, <<"n", "e", "u">>) \/ Contains(condition_lower, <<"n", "e", "w">>) THEN <<"N", "e", "w">>
    ELSE IF Contains(condition_lower, <<"s", "e", "h", "r", " ", "g", "u", "t">>) \/ Contains(condition_lower, <<"v", "e", "r", "y", " ", "g", "o", "o", "d">>)
    THEN <<"V", "e", "r", "y", " ", "G", "o", "o", "d">>
    ELSE IF Contains(condition_lower, <<"g", "u", "t">>) \/ Contains(condition_lower, <<"g", "o", "o", "d">>) THEN <<"G", "o", "o", "d">>
    ELSE IF condition_raw # EMOJI_QUESTION THEN condition_raw
    ELSE EMOJI_QUESTION

\* the mapping of l.23-33
condition_grimmeissen(condition_raw, condition_lower) ==
    IF Contains(condition_lower, <<"n", "e", "u", "w", "e", "r", "t", "i", "g">>) \/ Contains(condition_lower, <<"l", "i", "k", "e", " ", "n", "e", "w">>)
    THEN <<"L", "i", "k", "e", " ", "N", "e", "w">>
    ELSE IF Contains(condition_lower, <<"s", "e", "h", "r", " ", "g", "u", "t">>) \/ Contains(condition_lower, <<"v", "e", "r", "y", " ", "g", "o", "o", "d">>)
    THEN <<"V", "e", "r", "y", " ", "G", "o", "o", "d">>
    ELSE IF Contains(condition_lower, <<"g", "u", "t">>) \/ Contains(condition_lower, <<"g", "o", "o", "d">>) THEN <<"G", "o", "o", "d">>
    ELSE IF condition_raw # EMOJI_QUESTION THEN condition_raw
    ELSE EMOJI_QUESTION

\* the mapping of l.37-52; description_parts is an Option of a list
condition_tropicalwatch(description_parts) ==
    IF description_parts = Nothing THEN EMOJI_QUESTION
    ELSE LET desc_text == to_lowercase(JoinSpace(description_parts[1]))
         IN  IF Contains(desc_text, <<"m", "i", "n", "t">>) \/ Contains(desc_text, <<"p", "r", "i", "s", "t", "i", "n", "e">>)
             THEN <<"M", "i", "n", "t">>
             ELSE IF Contains(desc_text, <<"e", "x", "c", "e", "l", "l", "e", "n", "t">>) THEN <<"E", "x", "c", "e", "l", "l", "e", "n", "t">>
             ELSE IF Contains(desc_text, <<"v", "e", "r", "y", " ", "g", "o", "o", "d">>) THEN <<"V", "e", "r", "y", " ", "G", "o", "o", "d">>
             ELSE IF Contains(desc_text, <<"g", "o", "o", "d">>) THEN <<"G", "o", "o", "d">>
             ELSE EMOJI_QUESTION

\* get_condition_display (l.4-63)
get_condition_display(condition_raw, site, description_parts) ==
    LET condition_lower == to_lowercase(condition_raw)
    IN  IF site = "WorldOfTime" THEN condition_worldoftime(condition_raw, condition_lower)
        ELSE IF site = "Grimmeissen" THEN condition_grimmeissen(condition_raw, condition_lower)
        ELSE IF site = "TropicalWatch" THEN condition_tropicalwatch(description_parts)
        ELSE IF condition_raw # EMOJI_QUESTION THEN condition_raw
        ELSE EMOJI_QUESTION

\* the most description fragments handed in
MaxParts == 2

\* raw condition cells of detail pages; watch_out.rs l.362 hands in ""
ConditionRaws ==
    { <<>>, <<"?">>, <<"n", "e", "u">>,
      <<"n", "e", "u", "w", "e", "r", "t", "i", "g">>, <<"s", "e", "h", "r", " ", "g", "u", "t">>, <<"G", "u", "t">>,
      <<"l", "i", "k", "e", " ", "n", "e", "w">>, <<"v", "e", "r", "y", " ", "g", "o", "o", "d">>, <<"g", "o", "o", "d">>,
      <<"g", "e", "b", "r", "a", "u", "c", "h", "t">>, <<"m", "i", "n", "t">> }

\* description fragments
DescriptionFragments ==
    { <<"m", "i", "n", "t">>, <<"p", "r", "i", "s", "t", "i", "n", "e">>, <<"e", "x", "c", "e", "l", "l", "e", "n", "t">>,
      <<"v", "e", "r", "y", " ", "g", "o", "o", "d">>, <<"g", "o", "o", "d">>, <<"x">> }

\* what is handed in as description_parts
DescriptionArgs == {Nothing} \cup { Some(d) : d \in SeqsUpTo(DescriptionFragments, MaxParts) }

InitCondition ==
    /\ mainPc = "tick"
    /\ cycle = 0
    /\ task = [s \in Sites |-> IdleTask]
    /\ hist = [s \in Sites |-> EmptyHist]
    /\ store = {}
    /\ fetch = IdleFetch
    /\ RestOfParseIdle
    /\ \E r \in ConditionRaws, a \in Adapters, d \in DescriptionArgs :
         parseCall = [pc |-> "call", raw |-> r, site |-> a, parts |-> d, out |-> <<>>]

\* get_condition_display(condition_raw, site, description_parts)
ConditionDisplay ==
    /\ parseCall.pc = "call"
    /\ parseCall' = [parseCall EXCEPT
                       !.pc = "done",
                       !.out = get_condition_display(parseCall.raw, parseCall.site,
                                                     parseCall.parts)]
    /\ UNCHANGED << mainPc, cycle, task, hist, store, fetch, restOfParse >>

NextCondition == ConditionDisplay

SpecCondition == InitCondition /\ [][NextCondition]_vars

\* the closed set of labels
ConditionLabels ==
    { <<"N", "e", "w">>, <<"L", "i", "k", "e", " ", "N", "e", "w">>, <<"E", "x", "c", "e", "l", "l", "e", "n", "t">>, <<"V", "e", "r", "y", " ", "G", "o", "o", "d">>,
      <<"G", "o", "o", "d">>, <<"M", "i", "n", "t">>, <<"F", "a", "i", "r">> }

\* C26 (as claimed): for every site and every raw input condition_display
\* returns one of the labels New, Like New, Excellent, Very Good, Good, Mint,
\* Fair or the unknown sentinel, and for every site but the one that derives
\* the condition from free text the description fragments do not influence
\* the result.
C26_ConditionClosedSet ==
    parseCall.pc = "done" =>
      /\ parseCall.out \in ConditionLabels \cup {EMOJI_QUESTION}
      /\ parseCall.site # "TropicalWatch" =>
           parseCall.out = get_condition_display(parseCall.raw, parseCall.site, Nothing)

\* the part of C26 about the description fragments alone
C26_DescriptionIsolated ==
    parseCall.pc = "done" /\ parseCall.site # "TropicalWatch" =>
      parseCall.out = get_condition_display(parseCall.raw, parseCall.site, Nothing)

----------------------------------------------------------------------------
(* The listing of the World of Time adapter, scrapers/worldoftime.rs l.75-266 *)

\* the euro sign, one character
EuroSign == "u20AC"

\* format_price_eur_display (parsers/price.rs l.25-50)
format_price_eur_display(price_text) ==
    IF trim(price_text) = <<>> THEN EMOJI_QUESTION
    ELSE IF price_find(price_text) # Nothing
    THEN IF Contains(price_text, <<EuroSign>>) THEN price_text
         ELSE price_find(price_text)[1] \o <<" ", EuroSign>>
    ELSE EMOJI_QUESTION

\* WatchData as l.83-91 builds it
EmptyWatchData ==
    [ url |-> <<>>, title |-> <<>>, brand |-> <<>>, model |-> <<>>,
      price_raw |-> <<>>, price_display |-> <<>> ]

\* l.119-136: title, brand (first word) and model (the rest) of the element
WithTitle(data, title_elem) ==
    IF title_elem = Nothing THEN data
    ELSE LET full_title == clean_text(title_elem[1])
             parts == split_whitespace(full_title, <<>>)
         IN  [ data EXCEPT
                 !.title = full_title,
                 !.brand = IF parts # <<>> THEN parts[1] ELSE @,
                 !.model = IF Len(parts) > 1 THEN JoinSpace(Tail(parts)) ELSE @ ]

\* l.138-145: the price of the element
WithPrice(data, price_elem) ==
    IF price_elem = Nothing THEN data
    ELSE LET price_text == clean_text(price_elem[1])
         IN  [ data EXCEPT
                 !.price_raw = get_price_string_for_hash(price_text),
                 !.price_display = format_price_eur_display(price_text) ]

\* the body of the loop of extract_watch_data (l.82-144) for one element
element_data(element) ==
    WithPrice(WithTitle([ EmptyWatchData EXCEPT
                            !.url = IF element.link THEN <<"u">> ELSE <<>> ],
                        element.title),
              element.price)

\* parse_table_th_td (parsers/mod.rs l.27-49): the cells under the known headers
parse_table_th_td(table) ==
    [ k \in DOMAIN table |-> IF table[k] = Nothing THEN Nothing
                              ELSE Some(clean_text(table[k][1])) ]

\* l.199-216: the h1 of the detail page replaces title, brand and model
WithH1(watch, h1) ==
    IF h1 = Nothing \/ clean_text(h1[1]) = <<>> THEN watch
    ELSE LET detailed_title == clean_text(h1[1])
             parts == split_whitespace(detailed_title, <<>>)
         IN  [ watch EXCEPT
                 !.title = detailed_title,
                 !.brand = parts[1],
                 !.model = IF Len(parts) > 1 THEN JoinSpace(Tail(parts)) ELSE @ ]

\* l.218-265: the details table
WithDetails(watch, table) ==
    IF table = Nothing THEN watch
    ELSE LET details == parse_table_th_td(table[1])
         IN  [ watch EXCEPT
                 !.reference = IF details.reference # Nothing
                               THEN extract_reference(details.reference[1]) ELSE @,
                 !.year = IF details.year # Nothing
                          THEN parse_year_from_string(details.year[1], Some(watch.title))
                          ELSE @,
                 !.condition_display =
                     IF details.condition # Nothing
                     THEN get_condition_display(details.condition[1], "WorldOfTime", Nothing)
                     ELSE @,
                 !.case_material = IF details.case_material # Nothing
                                   THEN clean_text(details.case_material[1]) ELSE @,
                 !.diameter = IF details.diameter # Nothing
                              THEN clean_text(details.diameter[1]) ELSE @ ]

\* parse_detail_page (l.197-266), every field it writes
parse_detail_page_fields(page, watch) == WithDetails(WithH1(watch, page.h1), page.table)

\* process_watch (l.156-193); detail is what fetch_with_retry gave, if anything
process_watch(data, detail) ==
    IF detail = Nothing THEN NewWatch(data)
    ELSE parse_detail_page_fields(detail[1], NewWatch(data))

\* the most words of a title on a page
MaxTitleWords == 2

\* the words of titles
TitleWords == { <<"R", "o", "l", "e", "x">>, <<"S", "u", "b">> }

\* the text of a title element, if the element is there
TitleElems ==
    {Nothing} \cup { Some(JoinSpace(q)) : q \in SeqsUpTo(TitleWords, MaxTitleWords) }

\* the text of a price element, if the element is there
PriceElems == { Nothing, Some(<<>>), Some(<<"1", ".", "2", "0", "0", " ", EuroSign>>), Some(<<"x">>) }

\* one element of the listing page
Elements == [ link : BOOLEAN, title : TitleElems, price : PriceElems ]

\* a cell of the details table: the row absent, the cell empty, or a value
Cell(value) == { Nothing, Some(<<>>), Some(value) }

\* the details tables
DetailTables ==
    [ reference : Cell(<<"R", "e", "f", ".", " ", "7">>), year : Cell(<<"1", "9", "9", "9">>),
      condition : Cell(<<"n", "e", "u">>), case_material : Cell(<<"S", "t", "a", "h", "l">>),
      diameter : Cell(<<"4", "0", " ", "m", "m">>) ]

\* the detail pages, and no page when the fetch fails
DetailResults ==
    {Nothing}
    \cup { Some([ h1 |-> h, table |-> t ]) :
             h \in { Nothing, Some(<<" ">>), Some(<<"O", "m", "e", "g", "a", " ", "x">>) },
             t \in {Nothing} \cup { Some(d) : d \in DetailTables } }

InitListing ==
    /\ mainPc = "tick"
    /\ cycle = 0
    /\ task = [s \in Sites |-> IdleTask]
    /\ hist = [s \in Sites |-> EmptyHist]
    /\ store = {}
    /\ fetch = IdleFetch
    /\ RestOfParseIdle
    /\ \E e \in Elements, d \in DetailResults :
         parseCall = [ pc |-> "extract", element |-> e, detail |-> d,
                       data |-> EmptyWatchData, out |-> DefaultListing ]

\* extract_watch_data: an element without a link is not pushed (l.146-148)
ExtractWatchData ==
    /\ parseCall.pc = "extract"
    /\ LET data == element_data(parseCall.element)
       IN  parseCall' = [ parseCall EXCEPT
                            !.pc = IF data.url # <<>> THEN "process" ELSE "dropped",
                            !.data = data ]
    /\ UNCHANGED << mainPc, cycle, task, hist, store, fetch, restOfParse >>

\* process_watch for the extracted element
ProcessWatchData ==
    /\ parseCall.pc = "process"
    /\ parseCall' = [ parseCall EXCEPT
                        !.pc = "done",
                        !.out = process_watch(parseCall.data, parseCall.detail) ]
    /\ UNCHANGED << mainPc, cycle, task, hist, store, fetch, restOfParse >>

NextListing == ExtractWatchData \/ ProcessWatchData

SpecListing == InitListing /\ [][NextListing]_vars

\* the descriptive string fields of a listing
DescriptiveFields ==
    { "brand", "model", "reference", "year", "price_eur_display",
      "condition_display", "case_material", "diameter", "title" }

\* C27 (as claimed): in every listing an adapter hands on, each of brand,
\* model, reference, year, display price, condition, diameter, case material
\* and title is an extracted value or the unknown sentinel, never the empty
\* string, whichever elements the listing and detail pages hold.
C27_NoEmptyField ==
    parseCall.pc = "done" => \A f \in DescriptiveFields : parseCall.out[f] # <<>>

----------------------------------------------------------------------------
(* One notification per (site key, id), main.rs l.82-103 *)

\* the store holds a row for the site's key and the id
HasRow(rows, s, id) == \E r \in rows : r.site = key(s) /\ r.watch_id = id

\* the step in which send_notification is called for the site's listing
Attempted(s) ==
    /\ task[s].pc = "notify"
    /\ task'[s].pc # "notify" \/ mainPc' = "panicked"

\* the id has_seen was last asked about by the site's future: that of the
\* listing the loop is at
ExaminedId(h) == h.examined[Len(h.examined)].id

\* no id twice in a list of ids
NoRepeat(ids) == \A i, j \in DOMAIN ids : i # j => ids[i] # ids[j]

\* what the steps of C28 change: where main and the futures stand, the
\* number of notifications of the cycle, and the rows
NotifyView ==
    << mainPc, cycle, [s \in Sites |-> task[s].pc],
       [s \in Sites |-> Len(hist[s].notifs)], store >>

\* C28: at most one notification is attempted per (site key, id) while
\* store calls succeed.  Rows are never removed; send_notification is called
\* only while main runs and only for a listing whose (site key, id) has no
\* row, so after no earlier attempt whose mark_seen succeeded; the attempt,
\* failed or not, leaves the row behind unless mark_seen fails or the process
\* ends; a listing examined while its row is there is not notified; and
\* within a cycle without a failed store call no id is notified twice.
C28_NotifiedAtMostOnce ==
    [][ /\ store \subseteq store'
        /\ \A s \in Sites :
             /\ Attempted(s) =>
                  /\ mainPc = "join"
                  /\ ExaminedId(hist[s]) = CurrentId(s)
                  /\ ~HasRow(store, s, ExaminedId(hist[s]))
                  /\ (mainPc' # "panicked" /\ hist'[s].store_err = 0) =>
                       HasRow(store', s, ExaminedId(hist[s]))
             /\ (task[s].pc = "list_loop" /\ task'[s].pc = "notify") =>
                  ~HasRow(store, s, ExaminedId(hist'[s]))
             /\ hist'[s].store_err = 0 => NoRepeat(hist'[s].notifs) ]_NotifyView

\* in the second cycle one site has notified a listing, the delivery failed,
\* and has skipped the next listing, which has the same id; the other site
\* has skipped a listing whose id it notified in the first cycle
C28_Witness ==
    /\ cycle = 2
    /\ \E s, t \in Sites :
         /\ s # t
         /\ hist[s].store_err = 0
         /\ hist[s].failed = 1
         /\ Len(hist[s].notifs) = 1
         /\ Len(hist[s].examined) = 2
         /\ ~hist[s].examined[1].seen
         /\ hist[s].examined[2].seen
         /\ hist[s].examined[2].id = hist[s].examined[1].id
         /\ hist[t].notifs = <<>>
         /\ \E i \in DOMAIN hist[t].examined : hist[t].examined[i].seen

----------------------------------------------------------------------------
(* The store is partitioned by site, storage/sqlite.rs l.51-74 and         *)
(* main.rs l.83-97                                                         *)

\* what the steps of C29 change: where main and the futures stand, the
\* listings still to be examined, and the rows
StoreView ==
    << mainPc, cycle, [s \in Sites |-> task[s].pc],
       [s \in Sites |-> Len(task[s].listings)], store >>

\* the ids of the rows
RowIds(rows) == { r.watch_id : r \in rows }

\* C29: the sites' keys differ; a step of one site's future adds rows under
\* that site's key only, for the id of its listing, and leaves has_seen of
\* every other site as it was for every id; and a site's listing is skipped
\* exactly when a row under the site's own key holds its id, so an id with a
\* row under another site's key is notified.
C29_PartitionedBySite ==
    [][ /\ \A s, t \in Sites : s # t => key(s) # key(t)
        /\ \A s \in Sites :
             /\ Attempted(s) =>
                  /\ \A r \in store' \ store :
                       r.site = key(s) /\ r.watch_id = ExaminedId(hist[s])
                  /\ \A t \in Sites \ {s}, id \in RowIds(store') \cup {ExaminedId(hist[s])} :
                       has_seen(store', t, id) = has_seen(store, t, id)
             /\ ~Attempted(s) => \A r \in store' \ store : r.site # key(s)
             /\ (task[s].pc = "list_loop" /\ task'[s].pc = "list_loop"
                 /\ Len(task'[s].listings) < Len(task[s].listings)) =>
                  HasRow(store, s, ExaminedId(hist'[s]))
             /\ (task[s].pc = "list_loop" /\ task'[s].pc = "notify") =>
                  /\ ~HasRow(store, s, ExaminedId(hist'[s])) ]_StoreView

\* in the second cycle a site has notified a listing whose id the other site
\* notified in the first cycle and skips now: the store holds the id under
\* both keys
C29_Witness ==
    /\ cycle = 2
    /\ \E s, t \in Sites :
         /\ s # t
         /\ Len(hist[s].notifs) = 1
         /\ Len(hist[s].rows) = 1
         /\ HasRow(store, s, hist[s].notifs[1])
         /\ HasRow(store, t, hist[s].notifs[1])
         /\ hist[t].notifs = <<>>
         /\ \E i \in DOMAIN hist[t].examined :
              hist[t].examined[i].seen /\ hist[t].examined[i].id = hist[s].notifs[1]

----------------------------------------------------------------------------
(* The default rate is cached, a reused stale rate is not refreshed,       *)
(* utils/exchange_rate.rs l.35-90                                          *)

\* the cache holding the default rate written at time t
DefaultCached(t) == [rate |-> Some(FALLBACK_RATE), last_updated |-> Some(t)]

\* C30 (as claimed): of every call: when no rate was ever cached and the GET
\* fails, the default is returned and written into the cache with the time of
\* the call; a call that finds the default less than the TTL old returns it
\* without a GET; when the GET fails and the stale rate of an earlier GET is
\* returned, the cache, rate and timestamp, is as before; and a call that
\* finds a stale rate sends a GET again.
C30_DefaultCachedStaleKept ==
    LET c == rateClient.call IN
    c.made =>
      /\ (c.fetched /\ c.outcome # "quote" /\ c.cache_before = EmptyCache) =>
           /\ c.result = [tag |-> "ok", rate |-> FALLBACK_RATE]
           /\ rateClient.cache = DefaultCached(c.at)
      /\ (\E t \in 0..c.at : c.cache_before = DefaultCached(t)
                             /\ c.at - t < CACHE_HOURS) =>
           /\ ~c.fetched
           /\ c.result = [tag |-> "ok", rate |-> FALLBACK_RATE]
           /\ rateClient.cache = c.cache_before
      /\ (c.fetched /\ c.outcome # "quote" /\ c.last_good_before # Nothing
          /\ c.result = [tag |-> "ok", rate |-> c.last_good_before[1]]) =>
           rateClient.cache = c.cache_before
      /\ (c.cache_before.rate # Nothing /\ ~CacheValid(c.cache_before, c.at)) =>
           c.fetched

====
